---- MODULE Spec2Model ----
(***************************************************************************)
(* A model of the rdiff engine (silviutanasa/rdiff): the rolling Adler-32  *)
(* weak hash, the signature builder, the delta builder and the block size  *)
(* policy of the application layer.                                        *)
(*                                                                         *)
(* Seven specifications are given.                                         *)
(*   SpecHash : a rolling hash driven by arbitrary WriteAll / Roll / Reset *)
(*              calls.                                                     *)
(*   SpecWide : a rolling hash over windows of up to 2^32 / 255 bytes and  *)
(*              beyond, the window held as runs of equal bytes.            *)
(*   SpecSize : App.Signature calls on one App, each up to the choice of   *)
(*              the block size.                                            *)
(*   Spec     : one rDiff instance running ComputeSignature over a target  *)
(*              and then ComputeDelta over a source, one loop iteration    *)
(*              per step (the flow of TestRDiffE2E).                       *)
(*   SpecComputeDelta : the same flow through computeDelta of rdiff.go,    *)
(*              the copy of the engine that keeps a strongFound flag.      *)
(*   SpecAgain : the flow of Spec with ComputeDelta called again on the    *)
(*              same rDiff, source and block list.                         *)
(*   SpecApp  : App.Signature from the choice of the block size through    *)
(*              ComputeSignature, then ComputeDelta.                       *)
(*                                                                         *)
(* Byte streams are read the way bytes.Reader and os.File deliver them: a  *)
(* read returns min(len(buf), remaining) bytes, and (0, io.EOF) at the     *)
(* end; any read may instead fail with another error, with or without      *)
(* bytes.  A 32-bit word is kept as the pair <<high 16 bits, low 16        *)
(* bits>>, a 64-bit one as four 16-bit limbs.                              *)
(***************************************************************************)
EXTENDS Integers, Sequences, FiniteSets, TLC

\* ------------------------------------------------------------------------
\* Bounds of the model.
\* ------------------------------------------------------------------------
\* largest block size the engine is configured with
MaxB == 4
\* longest target stream
MaxTargetLen == 5
\* longest source stream
MaxSourceLen == 6
\* longest input of a WriteAll call in SpecHash
MaxWriteLen == 3
\* most Roll calls since the last non-empty WriteAll or Reset (SpecHash, SpecWide)
MaxRolls == 4

\* the byte values the streams are drawn from
Bytes == {0, 255}

SeqsUpTo(n) == UNION {[1..k -> Bytes] : k \in 0..n}

Min(x, y) == IF x < y THEN x ELSE y

\* the last k elements of s (all of s when it is shorter)
LastN(s, k) == IF Len(s) <= k THEN s ELSE SubSeq(s, Len(s) - k + 1, Len(s))

\* ------------------------------------------------------------------------
\* The rolling weak hash (adler32RollingHash).
\* ------------------------------------------------------------------------
M == 65521

\* the Value of a ring element that was never written
NilValue == -1

\* a nil *ring.Ring
NilRing == [vals |-> <<>>, at |-> 0]

\* ring.New(k): k elements, none written, the handle on the first
RingNew(k) == [vals |-> [i \in 1..k |-> NilValue], at |-> 1]

\* r.Next(): the handle moves to the next element of the circle
RingNext(r) == [r EXCEPT !.at = (r.at % Len(r.vals)) + 1]

\* r.Value = v
RingSet(r, v) == [r EXCEPT !.vals[r.at] = v]

\* hash/adler32 over p, as the pair <<b, a>> (Sum32 = b<<16 | a)
RECURSIVE Adler32Classic(_, _, _)
Adler32Classic(p, a, b) ==
    IF p = <<>> THEN <<b, a>>
    ELSE LET a1 == (a + Head(p)) % M
         IN  Adler32Classic(Tail(p), a1, (b + a1) % M)

Adler32(p) == Adler32Classic(p, 1, 0)

newAdler32RollingHash == [a |-> 1, b |-> 0, n |-> 0, window |-> NilRing]

RECURSIVE WriteRing(_, _)
WriteRing(r, p) ==
    IF p = <<>> THEN r ELSE WriteRing(RingNext(RingSet(r, Head(p))), Tail(p))

\* faulty variant: WriteAll without the early return for an empty p, which
\* then replaces the ring by ring.New(0), a nil ring, and sets the sum of no
\* bytes
WriteAllEmptyWritten(h, p) ==
    LET w0 == IF Len(p) # h.n THEN (IF Len(p) = 0 THEN NilRing ELSE RingNew(Len(p)))
              ELSE h.window
        s  == Adler32(p)
    IN  [a |-> s[2], b |-> s[1], n |-> Len(p),
         window |-> IF w0 = NilRing THEN NilRing ELSE WriteRing(w0, p)]

\* faulty variant: WriteAll that goes on from the current sum, the classical
\* hasher not being reset before p is written
WriteAllNoReset(h, p) ==
    IF Len(p) = 0 THEN h
    ELSE LET w0 == IF Len(p) # h.n THEN RingNew(Len(p)) ELSE h.window
             s  == Adler32Classic(p, h.a, h.b)
         IN  [a |-> s[2], b |-> s[1], n |-> Len(p), window |-> WriteRing(w0, p)]

WriteAll(h, p) ==
    IF Len(p) = 0 THEN h
    ELSE LET w0 == IF Len(p) # h.n THEN RingNew(Len(p)) ELSE h.window
             s  == Adler32(p)
         IN  [a |-> s[2], b |-> s[1], n |-> Len(p), window |-> WriteRing(w0, p)]

\* uint32 arithmetic.  A 32-bit word is the pair <<high 16 bits, low 16 bits>>.
U32(x) == <<(x \div 65536) % 65536, x % 65536>>

Add32(x, y) ==
    LET lo == x[2] + y[2]
    IN  <<(x[1] + y[1] + lo \div 65536) % 65536, lo % 65536>>

Sub32(x, y) ==
    LET lo == x[2] - y[2] + 65536
    IN  <<(x[1] - y[1] - (1 - lo \div 65536) + 65536) % 65536, lo % 65536>>

\* the word x times a number c of at most 9 bits, modulo 2^32
MulSmall(x, c) ==
    LET lo == x[2] * c
    IN  <<(x[1] * c + lo \div 65536) % 65536, lo % 65536>>

\* the word x times the 16-bit number k, modulo 2^32
MulHalf(x, k) ==
    Add32(MulSmall(MulSmall(x, k \div 256), 256), MulSmall(x, k % 256))

\* the product of two words, modulo 2^32
Mul32(x, y) == Add32(<<MulHalf(x, y[1])[2], 0>>, MulHalf(x, y[2]))

\* x / M and x % M for a word x: 65536 * hi + lo = M * hi + ((65536 - M) * hi + lo)
Div32ByM(x) == x[1] + ((65536 - M) * x[1] + x[2]) \div M
Mod32ByM(x) == ((65536 - M) * x[1] + x[2]) % M

\* the update of a in Roll
RollA(h, enter, leave) ==
    Mod32ByM(Sub32(Add32(Add32(U32(h.a), U32(M)), U32(enter)), U32(leave)))

\* faulty variant: the update of b without its last term, the 1 that the
\* leaving byte's share of b carries besides n * leave
RollBWithoutOne(h, aNew, leave) ==
    LET nl == Mul32(U32(h.n), U32(leave))
    IN  Mod32ByM(Sub32(Add32(Add32(U32(h.b), Mul32(U32(Div32ByM(nl) + 1), U32(M))),
                             U32(aNew)),
                       nl))

\* the update of b in Roll
RollB(h, aNew, leave) ==
    LET nl == Mul32(U32(h.n), U32(leave))
    IN  Mod32ByM(Sub32(Sub32(Add32(Add32(U32(h.b), Mul32(U32(Div32ByM(nl) + 1), U32(M))),
                                   U32(aNew)),
                             nl),
                       U32(1)))

\* uint32 operations whose exact result is outside 0 .. 2^32 - 1
AddWraps(x, y) == x[1] + y[1] + (x[2] + y[2]) \div 65536 >= 65536

SubWraps(x, y) == x[1] < y[1] \/ (x[1] = y[1] /\ x[2] < y[2])

\* the word x times a number c of at most 9 bits
MulSmallWraps(x, c) == x[1] * c + (x[2] * c) \div 65536 >= 65536

\* q * M: the product kept its value iff dividing it by M gives q back
MulByMWraps(q) ==
    LET p == Mul32(U32(q), U32(M))
    IN  Div32ByM(p) # q \/ Mod32ByM(p) # 0

\* some intermediate value of the two updates of Roll, taken in the order Go
\* evaluates them, wraps
RollWraps(h, enter, leave) ==
    LET t1   == Add32(U32(h.a), U32(M))
        t2   == Add32(t1, U32(enter))
        aNew == RollA(h, enter, leave)
        nl   == Mul32(U32(h.n), U32(leave))
        q1   == Div32ByM(nl) + 1
        qm   == Mul32(U32(q1), U32(M))
        s1   == Add32(U32(h.b), qm)
        s2   == Add32(s1, U32(aNew))
        s3   == Sub32(s2, nl)
    IN  \/ AddWraps(U32(h.a), U32(M))
        \/ AddWraps(t1, U32(enter))
        \/ SubWraps(t2, U32(leave))
        \/ MulSmallWraps(U32(h.n), leave)
        \/ MulByMWraps(q1)
        \/ AddWraps(U32(h.b), qm)
        \/ AddWraps(s1, U32(aNew))
        \/ SubWraps(s2, nl)
        \/ SubWraps(s3, U32(1))

\* faulty variant: Roll that stores the entering byte without advancing the ring
RollNoAdvance(h, x) ==
    LET leave == h.window.vals[h.window.at]
        aNew  == RollA(h, x, leave)
    IN  [hash |-> [h EXCEPT !.window = RingSet(h.window, x),
                            !.a = aNew,
                            !.b = RollB(h, aNew, leave)],
         out  |-> leave]

\* faulty variant: Roll that hands back the byte that entered
RollReturnEntering(h, x) ==
    LET leave == h.window.vals[h.window.at]
        aNew  == RollA(h, x, leave)
    IN  [hash |-> [h EXCEPT !.window = RingNext(RingSet(h.window, x)),
                            !.a = aNew,
                            !.b = RollB(h, aNew, leave)],
         out  |-> x]

\* Roll on a non-nil window (on a nil window the code panics): the hash
\* afterwards and the byte returned
Roll(h, x) ==
    LET leave == h.window.vals[h.window.at]
        aNew  == RollA(h, x, leave)
    IN  [hash |-> [h EXCEPT !.window = RingNext(RingSet(h.window, x)),
                            !.a = aNew,
                            !.b = RollB(h, aNew, leave)],
         out  |-> leave]

\* faulty variant: Sum32 with the two components in each other's half
Sum32Swapped(h) == <<h.a % 65536, h.b % 65536>>

Sum32(h) == <<h.b % 65536, h.a % 65536>>

\* faulty variant: Reset that leaves the ring in place
ResetKeepWindow(h) == [a |-> 1, b |-> 0, n |-> 0, window |-> h.window]

Reset(h) == [a |-> 1, b |-> 0, n |-> 0, window |-> NilRing]

RECURSIVE ReadRing(_, _)
ReadRing(r, k) ==
    IF k = 0 THEN <<>>
    ELSE (IF r.vals[r.at] # NilValue THEN <<r.vals[r.at]>> ELSE <<>>)
         \o ReadRing(RingNext(r), k - 1)

GetWindowContent(h) ==
    IF h.window = NilRing THEN <<>> ELSE ReadRing(h.window, h.n)

\* ------------------------------------------------------------------------
\* The strong hash (md5 in New): a digest of the bytes written since Reset.
\* Distinct inputs are given distinct digests.
\* ------------------------------------------------------------------------
StrongSum(p) == <<"md5", Len(p)>> \o p

\* The strong hasher of an rDiff is one hash.Hash used again and again; its
\* state is kept as the bytes written since its last Reset.
\* faulty variant: a Reset of the strong hasher that forgets nothing
StrongResetNothing(sh) == sh

\* strongHasher.Reset()
StrongReset(sh) == <<>>

\* strongHasher.Write(p)
StrongWrite(sh, p) == sh \o p

\* strongHasher.Sum(nil): the digest of what was written, the state unchanged
StrongSumOf(sh) == StrongSum(sh)

\* ------------------------------------------------------------------------
\* rDiff: operations, block index, final assembly.
\* ------------------------------------------------------------------------
OpBlockKeep == 0
OpBlockUpdate == 1
OpBlockRemove == 2
OpBlockNew == 3

\* the BlockIndex of an OpBlockNew operation, and the key of its map entry
NewIndex == -1

Block(strongHash, weakHash) == [StrongHash |-> strongHash, WeakHash |-> weakHash]

Operation(type, blockIndex, data) ==
    [Type |-> type, BlockIndex |-> blockIndex, Data |-> data]

\* what a Read into a buffer of bufLen bytes returns when `remaining` bytes are left
ReadCount(bufLen, remaining) == Min(bufLen, remaining)

\* the read size of ComputeDelta: a full block when filling, one byte when rolling
read(bSize, isRolling) == IF isRolling THEN 1 ELSE bSize

\* the error values a Read returns: nil, io.EOF, and any other error
NoErr == "nil"
EOF == "io.EOF"
ErrRead == "read error"

\* faulty variant: a read that returned bytes is processed whatever its error
afterReadBytesFirst(n, e) ==
    IF n > 0 THEN "continue"
    ELSE IF e = EOF THEN "break"
    ELSE IF e # NoErr THEN "return err"
    ELSE "continue"

\* faulty variant: the test for an error other than io.EOF left out, so that
\* a failed read is taken for a read of n bytes
afterReadErrorsIgnored(n, e) ==
    IF n = 0 /\ e = EOF THEN "break" ELSE "continue"

\* faulty variant: a read of no byte ends the loop whatever its error
afterReadEmptyEndsLoop(n, e) ==
    IF n = 0 /\ e # NoErr THEN "break"
    ELSE IF e # NoErr /\ e # EOF THEN "return err"
    ELSE "continue"

\* the two tests behind a Read in ComputeSignature and in ComputeDelta: leave
\* the loop, return the error, or go on with the n bytes read
afterRead(n, e) ==
    IF n = 0 /\ e = EOF THEN "break"
    ELSE IF e # NoErr /\ e # EOF THEN "return err"
    ELSE "continue"

\* the array that holds the bytes of a slice the engine builds: one of its
\* own, or the array behind the literal of ComputeDelta
NewArray == "new array"
ArrayOfLiteral == "array of literal"

\* faulty variant: op.Data = lit[:len(lit)], the operation keeps the literal
\* slice itself
DataArrayOfLiteral(index, lit) == IF Len(lit) > 0 THEN ArrayOfLiteral ELSE NewArray

\* where op.Data of createOperation(index, lit) lies.  op.Data is nil when lit
\* is appended to it, and append finds no room in a nil slice: it allocates.
DataArray(index, lit) == NewArray

\* the operations of delta after bytes are stored into the array behind the
\* literal from position p on: the Data that lies in this array changes where
\* it reaches that far
WriteThrough(delta, sh, p, bytes) ==
    [k \in DOMAIN delta |->
        IF k \in sh
        THEN [delta[k] EXCEPT !.Data =
                 [j \in 1..Len(@) |->
                     IF j >= p /\ j < p + Len(bytes) THEN bytes[j - p + 1] ELSE @[j]]]
        ELSE delta[k]]

\* faulty variant: createOperation that makes every match an update
createOperationAlwaysUpdate(index, lit) == Operation(OpBlockUpdate, index, lit)

\* faulty variant: createOperation that keeps the block and still carries the literal
createOperationKeepWithData(index, lit) == Operation(OpBlockKeep, index, lit)

createOperation(index, lit) ==
    Operation(IF Len(lit) > 0 THEN OpBlockUpdate ELSE OpBlockKeep, index, lit)

\* map[uint32][]blockData built from the block list, in block order
RECURSIVE SearchListFrom(_, _, _)
SearchListFrom(blockList, i, sl) ==
    IF i > Len(blockList) THEN sl
    ELSE LET k  == blockList[i].WeakHash
             e  == [strongHash |-> blockList[i].StrongHash, blockIndex |-> i - 1]
             bl == IF k \in DOMAIN sl THEN sl[k] ELSE <<>>
         IN  SearchListFrom(blockList, i + 1,
                 [x \in DOMAIN sl \cup {k} |-> IF x = k THEN Append(bl, e) ELSE sl[x]])

\* faulty variant: a search list that keeps, for every weak hash, the first
\* block only
computeSearchListFirstOnly(blockList) ==
    LET sl == SearchListFrom(blockList, 1, <<>>)
    IN  [h \in DOMAIN sl |-> <<sl[h][1]>>]

computeSearchList(blockList) == SearchListFrom(blockList, 1, <<>>)

\* faulty variant: IndexFunc that takes the first entry of the bucket without
\* comparing strong hashes
IndexFuncWeakOnly(bl, strongHash) == IF Len(bl) > 0 THEN 1 ELSE 0

\* slices.IndexFunc: the position (from 1) of the first entry of bl with this
\* strong hash, 0 when there is none
IndexFunc(bl, strongHash) ==
    LET hits == {i \in 1..Len(bl) : bl[i].strongHash = strongHash}
    IN  IF hits = {} THEN 0 ELSE CHOOSE i \in hits : \A j \in hits : i <= j

\* slices.Delete(bl, i, i+1)
Delete(bl, i) == SubSeq(bl, 1, i - 1) \o SubSeq(bl, i + 1, Len(bl))

\* faulty variant: searchBlock that leaves the entry it found in the bucket
searchBlockNoDelete(sl, h, sh) ==
    LET weakHash == <<h.b % 65536, h.a % 65536>>
        sh1      == GetWindowContent(h)
    IN  IF weakHash \in DOMAIN sl
        THEN LET hits == {i \in 1..Len(sl[weakHash]) :
                            sl[weakHash][i].strongHash = StrongSum(sh1)}
             IN  IF hits # {}
                 THEN [index |-> sl[weakHash][CHOOSE i \in hits : \A j \in hits : i <= j].blockIndex,
                       list  |-> sl, strong |-> sh1]
                 ELSE [index |-> -1, list |-> sl, strong |-> sh1]
        ELSE [index |-> -1, list |-> sl, strong |-> sh]

\* faulty variant: searchBlock that drops the whole bucket of a block it found
searchBlockDeleteBucket(sl, h, sh) ==
    LET weakHash == Sum32(h)
    IN  IF weakHash \in DOMAIN sl
        THEN LET bl         == sl[weakHash]
                 sh1        == StrongWrite(StrongReset(sh), GetWindowContent(h))
                 blFoundIdx == IndexFunc(bl, StrongSumOf(sh1))
             IN  IF blFoundIdx # 0
                 THEN [index  |-> bl[blFoundIdx].blockIndex,
                       list   |-> [sl EXCEPT ![weakHash] = <<>>],
                       strong |-> sh1]
                 ELSE [index |-> -1, list |-> sl, strong |-> sh1]
        ELSE [index |-> -1, list |-> sl, strong |-> sh]

\* searchBlock with the strong hasher sh: the block index found (-1 when
\* none), the search list afterwards and the strong hasher afterwards
searchBlock(sl, h, sh) ==
    LET weakHash == Sum32(h)
    IN  IF weakHash \in DOMAIN sl
        THEN LET bl         == sl[weakHash]
                 sh1        == StrongWrite(StrongReset(sh), GetWindowContent(h))
                 strongHash == StrongSumOf(sh1)
                 blFoundIdx == IndexFunc(bl, strongHash)
             IN  IF blFoundIdx # 0
                 THEN [index  |-> bl[blFoundIdx].blockIndex,
                       list   |-> [sl EXCEPT ![weakHash] = Delete(bl, blFoundIdx)],
                       strong |-> sh1]
                 ELSE [index |-> -1, list |-> sl, strong |-> sh1]
        ELSE [index |-> -1, list |-> sl, strong |-> sh]

\* delta[k] = op
MapPut(delta, k, op) == [x \in DOMAIN delta \cup {k} |-> IF x = k THEN op ELSE delta[x]]

\* faulty variant: the leftover literal without the window that was never matched
updateDeltaIgnoringWindow(delta, h, isRolling, lit) ==
    IF Len(lit) > 0
    THEN [x \in DOMAIN delta \cup {NewIndex} |->
             IF x = NewIndex THEN Operation(OpBlockNew, NewIndex, lit) ELSE delta[x]]
    ELSE delta

\* faulty variant: an OpBlockNew recorded even when no literal is left over
updateDeltaAlwaysNew(delta, h, isRolling, lit) ==
    LET l == IF isRolling THEN lit \o GetWindowContent(h) ELSE lit
    IN  [x \in DOMAIN delta \cup {NewIndex} |->
            IF x = NewIndex THEN Operation(OpBlockNew, NewIndex, l) ELSE delta[x]]

updateDeltaWithLiteralBlockOperation(delta, h, isRolling, lit) ==
    LET l == IF isRolling THEN lit \o GetWindowContent(h) ELSE lit
    IN  IF Len(l) > 0 THEN MapPut(delta, NewIndex, Operation(OpBlockNew, NewIndex, l))
        ELSE delta

\* faulty variant: computeFinalDelta that emits nothing for an unmatched block
RECURSIVE FinalDeltaNoRemoveFrom(_, _, _)
FinalDeltaNoRemoveFrom(blockList, delta, i) ==
    IF i > Len(blockList) THEN <<>>
    ELSE (IF (i - 1) \in DOMAIN delta THEN <<delta[i - 1]>> ELSE <<>>)
         \o FinalDeltaNoRemoveFrom(blockList, delta, i + 1)

computeFinalDeltaNoRemove(blockList, delta) ==
    FinalDeltaNoRemoveFrom(blockList, delta, 1)
    \o (IF NewIndex \in DOMAIN delta THEN <<delta[NewIndex]>> ELSE <<>>)

\* faulty variant: computeFinalDelta that emits the literal block first
computeFinalDeltaNewFirst(blockList, delta) ==
    (IF NewIndex \in DOMAIN delta THEN <<delta[NewIndex]>> ELSE <<>>)
    \o [i \in 1..Len(blockList) |->
          IF (i - 1) \in DOMAIN delta THEN delta[i - 1]
          ELSE Operation(OpBlockRemove, i - 1, <<>>)]

computeFinalDelta(blockList, delta) ==
    [i \in 1..Len(blockList) |->
        IF (i - 1) \in DOMAIN delta THEN delta[i - 1]
        ELSE Operation(OpBlockRemove, i - 1, <<>>)]
    \o (IF NewIndex \in DOMAIN delta THEN <<delta[NewIndex]>> ELSE <<>>)

\* ------------------------------------------------------------------------
\* App: the block size policy.  An int64 (and an int) is kept as four 16-bit
\* limbs, the most significant first, in two's complement.
\* ------------------------------------------------------------------------
DefaultBlockSize == 700
MaxBlockSize == 131072

\* the limbs of a number n with 0 <= n < 2^31
I64(n) == <<0, 0, n \div 65536, n % 65536>>

IsNeg64(w) == w[1] >= 32768

\* a < b for limbs read as unsigned numbers
LtU64(a, b) == \E i \in 1..4 : a[i] < b[i] /\ \A j \in 1..(i - 1) : a[j] = b[j]

\* a < b for int64
Lt64(a, b) == IF IsNeg64(a) # IsNeg64(b) THEN IsNeg64(a) ELSE LtU64(a, b)

\* w >> 1 and w >> 2 for w >= 0
Shr1(w) ==
    <<w[1] \div 2,
      (w[2] \div 2) + (w[1] % 2) * 32768,
      (w[3] \div 2) + (w[2] % 2) * 32768,
      (w[4] \div 2) + (w[3] % 2) * 32768>>

Shr2(w) ==
    <<w[1] \div 4,
      (w[2] \div 4) + (w[1] % 4) * 16384,
      (w[3] \div 4) + (w[2] % 4) * 16384,
      (w[4] \div 4) + (w[3] % 4) * 16384>>

\* w << 2, the bits pushed out of the 64 lost
Shl2(w) ==
    <<((w[1] * 4) % 65536) + (w[2] \div 16384),
      ((w[2] * 4) % 65536) + (w[3] \div 16384),
      ((w[3] * 4) % 65536) + (w[4] \div 16384),
      (w[4] * 4) % 65536>>

\* b * b for 0 <= b < 2^18, by the halves of b = 256 * p + q
Square64(b) ==
    LET p  == b \div 256
        q  == b % 256
        t  == 2 * p * q * 256 + q * q
        hi == p * p + t \div 65536
    IN  <<0, hi \div 65536, hi % 65536, t % 65536>>

\* the first loop of computeDynamicBlockSize, from the state s = <<c, l, cnt>>
ShiftLoop(c, l, cnt) ==
    LET loop[s \in Nat \X [1..4 -> 0..65535] \X Nat] ==
            IF Lt64(I64(s[3]), Shl2(s[2]))
            THEN loop[<<s[1] * 2, Shr2(s[2]), s[3] + 1>>]
            ELSE s[1]
    IN  loop[<<c, l, cnt>>]

\* the second loop of computeDynamicBlockSize, from the state s = <<c, blSize>>;
\* c is a single bit above every bit still to come and blSize holds only bits
\* above c, so blSize | c is blSize + c and clearing the bit is taking c off
\* again
BitLoop(fLen, c, blSize) ==
    LET loop[s \in Nat \X Nat] ==
            IF s[1] >= 8
            THEN loop[<<s[1] \div 2,
                        IF Lt64(fLen, Square64(s[2] + s[1])) THEN s[2] ELSE s[2] + s[1]>>]
            ELSE s[2]
    IN  loop[<<c, blSize>>]

\* faulty variant: computeDynamicBlockSize without the final max
computeDynamicBlockSizeNoMax(fLen) ==
    IF ~Lt64(I64(DefaultBlockSize * DefaultBlockSize), fLen) THEN DefaultBlockSize
    ELSE LET c == ShiftLoop(1, fLen, 0)
         IN  IF c < 0 \/ c >= MaxBlockSize THEN MaxBlockSize
             ELSE BitLoop(fLen, c, 0)

\* computeDynamicBlockSize(fLen) for fLen > 0; the result, at most
\* MaxBlockSize, is given as a number
computeDynamicBlockSize(fLen) ==
    IF ~Lt64(I64(DefaultBlockSize * DefaultBlockSize), fLen) THEN DefaultBlockSize
    ELSE LET c == ShiftLoop(1, fLen, 0)
         IN  IF c < 0 \/ c >= MaxBlockSize THEN MaxBlockSize
             ELSE LET blSize == BitLoop(fLen, c, 0)
                  IN  IF blSize > DefaultBlockSize THEN blSize ELSE DefaultBlockSize

\* the number of bits of x for 0 <= x < 2^16
BitLen16(x) == CHOOSE k \in 0..16 : x < 2^k /\ (k = 0 \/ x >= 2^(k - 1))

\* w + x for 0 <= x < 2^16, modulo 2^64
AddSmall64(w, x) ==
    LET s4 == w[4] + x
        s3 == w[3] + (s4 \div 65536)
        s2 == w[2] + (s3 \div 65536)
        s1 == w[1] + (s2 \div 65536)
    IN  <<s1 % 65536, s2 % 65536, s3 % 65536, s4 % 65536>>

\* float64(w) for an integer w >= 0, as the integer it stands for: w keeps
\* its 53 leading bits, rounded to nearest, ties to the even mantissa.  A
\* number below 2^53 is kept; a longer one loses its d lowest bits, d being
\* its length less 53, at most 11, so they all lie in the lowest limb.
Float64(w) ==
    IF w[1] < 32 THEN w
    ELSE LET d    == BitLen16(w[1]) - 5
             r    == w[4] % (2^d)
             half == 2^(d - 1)
             odd  == (w[4] \div (2^d)) % 2 = 1
             down == <<w[1], w[2], w[3], w[4] - r>>
         IN  IF r > half \/ (r = half /\ odd) THEN AddSmall64(down, 2^d) ELSE down

\* nrOfChunks < 2 for nrOfChunks = int(math.Ceil(float64(fileSize) /
\* float64(blockSize))) with fileSize >= 0 and blockSize > 0.  The quotient of
\* two float64 is the real quotient rounded to nearest, so it is above 1, and
\* its Ceil at least 2, exactly when the dividend is above the divisor.
FewerThanTwoChunks(fileSize, blockSize) ==
    ~LtU64(Float64(blockSize), Float64(fileSize))

\* decideBlockSize(blockSize, fileSize) for fileSize > 0: the block size
\* returned and whether the error returned is non-nil.  math.Floor(x / 2) of a
\* float64 x that stands for an integer is that integer shifted by one.
decideBlockSize(bSize, fileSize) ==
    IF Lt64(I64(0), bSize)
    THEN IF FewerThanTwoChunks(fileSize, bSize)
         THEN [blockSize |-> I64(0), failed |-> TRUE]
         ELSE [blockSize |-> bSize, failed |-> FALSE]
    ELSE LET dyn == I64(computeDynamicBlockSize(fileSize))
         IN  IF FewerThanTwoChunks(fileSize, dyn)
             THEN [blockSize |-> Shr1(Float64(fileSize)), failed |-> FALSE]
             ELSE [blockSize |-> dyn, failed |-> FALSE]

\* ------------------------------------------------------------------------
\* State.
\* ------------------------------------------------------------------------
VARIABLES
    pc,           \* where the run stands
    weakHasher,   \* r.weakHasher: [a, b, n, window]
    strongHasher, \* r.strongHasher: the bytes written since its last Reset
    newBlockSize, \* the blockSize the rDiff was constructed with
    blockSize,    \* r.blockSize
    target,       \* the bytes behind the target reader
    fileSize,     \* the size of the target file, as App.Signature finds it
    tpos,         \* bytes of the target already read
    blockLen,     \* len(block) in ComputeSignature
    signature,    \* output of ComputeSignature, then blockList of ComputeDelta
    source,       \* the bytes behind the source reader
    spos,         \* bytes of the source already read
    searchList,   \* searchList of ComputeDelta
    tempDelta,    \* tempDelta of ComputeDelta
    literal,      \* literal of ComputeDelta
    rolling,      \* rolling of ComputeDelta
    strongFound,  \* strongFound of computeDelta (src/rdiff.go)
    shared,       \* the keys of tempDelta whose Data lies in the array behind literal
    delta,        \* the operation list ComputeDelta returned
    matches,      \* history: the confirmed matches, in the order they occurred
    probes,       \* history: every probe of the index, in order
    fed,          \* history (SpecHash): the bytes fed since the last non-empty WriteAll
    rolls,        \* history (SpecHash): Roll calls since the last non-empty WriteAll
    returned,     \* history (SpecHash): the byte the last Roll returned
    reads,        \* history: the Reads of the running call, [size asked, n, err]
    err           \* the error returned by the last call that returned

vars == <<pc, weakHasher, strongHasher, newBlockSize, blockSize, target, fileSize, tpos, blockLen, signature, source, spos,
          searchList, tempDelta, literal, rolling, strongFound, shared,
          delta, matches, probes, fed, rolls, returned, reads, err>>

hashHistory == <<fed, rolls, returned>>
deltaLocals == <<searchList, tempDelta, literal, rolling, strongFound, shared, delta,
                 matches, probes>>
inputs      == <<newBlockSize, blockSize, target, fileSize, source>>

\* ------------------------------------------------------------------------
\* Spec: ComputeSignature(target) followed by ComputeDelta(source, signature)
\* on one rDiff, as in TestRDiffE2E.
\* ------------------------------------------------------------------------
\* states an earlier ComputeSignature or ComputeDelta leaves the hashers of
\* an rDiff in: fresh, written, and rolled
UsedWeakHashers ==
    {newAdler32RollingHash,
     WriteAll(newAdler32RollingHash, <<255>>),
     Roll(WriteAll(newAdler32RollingHash, <<0, 255>>), 255).hash}

UsedStrongHashers == {<<>>, <<0, 255>>}

Init ==
    /\ pc = "new"
    /\ weakHasher \in UsedWeakHashers
    /\ strongHasher \in UsedStrongHashers
    /\ blockSize \in 1..MaxB
    /\ newBlockSize = blockSize
    /\ target \in SeqsUpTo(MaxTargetLen)
    /\ fileSize = I64(Len(target))
    /\ source \in SeqsUpTo(MaxSourceLen)
    /\ tpos = 0
    /\ blockLen = 0
    /\ signature = <<>>
    /\ spos = 0
    /\ searchList = <<>>
    /\ tempDelta = <<>>
    /\ literal = <<>>
    /\ rolling = FALSE
    /\ strongFound = FALSE
    /\ shared = {}
    /\ delta = <<>>
    /\ matches = <<>>
    /\ probes = <<>>
    /\ fed = <<>>
    /\ rolls = 0
    /\ returned = NilValue
    /\ reads = <<>>
    /\ err = NoErr

\* ComputeSignature, up to the loop
SignatureBegin ==
    /\ pc = "new"
    /\ pc' = "signature"
    /\ weakHasher' = Reset(weakHasher)
    /\ blockLen' = blockSize
    /\ signature' = <<>>
    /\ reads' = <<>>
    /\ UNCHANGED <<strongHasher, inputs, tpos, spos, deltaLocals, hashHistory, err>>

\* the rest of an iteration of ComputeSignature once n bytes are read: the
\* block is hashed and appended to the output
SignatureStep(n) ==
    LET block == SubSeq(target, tpos + 1, tpos + n)
        sh    == StrongWrite(StrongReset(strongHasher), block)
        h     == WriteAll(weakHasher, block)
    IN  /\ tpos' = tpos + n
        /\ blockLen' = n
        /\ strongHasher' = sh
        /\ weakHasher' = h
        /\ signature' = Append(signature, Block(StrongSumOf(sh), Sum32(h)))

\* one iteration of the loop of ComputeSignature that reads n > 0 bytes
SignatureRead ==
    /\ pc = "signature"
    /\ tpos < Len(target)
    /\ LET n == ReadCount(blockLen, Len(target) - tpos)
       IN  /\ afterRead(n, NoErr) = "continue"
           /\ SignatureStep(n)
           /\ reads' = Append(reads, [size |-> blockLen, n |-> n, err |-> NoErr])
    /\ UNCHANGED <<pc, inputs, spos, deltaLocals, hashHistory, err>>

\* ComputeSignature behind the loop: return output, nil
SignatureReturn ==
    /\ pc' = "signed"
    /\ err' = NoErr
    /\ UNCHANGED <<weakHasher, strongHasher, tpos, blockLen, signature>>

\* the read of ComputeSignature that returns (0, io.EOF): the loop ends
SignatureEOF ==
    /\ pc = "signature"
    /\ tpos = Len(target)
    /\ afterRead(0, EOF) = "break"
    /\ SignatureReturn
    /\ reads' = Append(reads, [size |-> blockLen, n |-> 0, err |-> EOF])
    /\ UNCHANGED <<inputs, spos, deltaLocals, hashHistory>>

\* a read of ComputeSignature that returns an error other than io.EOF, with
\* no byte or with the bytes a sound read would have given
SignatureReadError ==
    /\ pc = "signature"
    /\ \E k \in {0, ReadCount(blockLen, Len(target) - tpos)} :
          /\ reads' = Append(reads, [size |-> blockLen, n |-> k, err |-> ErrRead])
          /\ CASE afterRead(k, ErrRead) = "return err" ->
                    /\ pc' = "signatureFailed"
                    /\ err' = ErrRead
                    /\ tpos' = tpos + k
                    /\ UNCHANGED <<weakHasher, strongHasher, blockLen, signature>>
               [] afterRead(k, ErrRead) = "break" -> SignatureReturn
               [] OTHER ->
                    /\ SignatureStep(k)
                    /\ UNCHANGED <<pc, err>>
    /\ UNCHANGED <<inputs, spos, deltaLocals, hashHistory>>

\* ComputeDelta, up to the loop
DeltaBegin ==
    /\ pc = "signed"
    /\ pc' = "delta"
    /\ tempDelta' = <<>>
    /\ searchList' = computeSearchList(signature)
    /\ literal' = <<>>
    /\ weakHasher' = Reset(weakHasher)
    /\ rolling' = FALSE
    /\ shared' = {}
    /\ reads' = <<>>
    /\ UNCHANGED <<strongHasher, inputs, tpos, blockLen, signature, spos, delta,
                   strongFound, matches, probes, hashHistory, err>>

\* the rest of an iteration of ComputeDelta once the window h and the literal
\* lit are updated: probe the index, record a match or switch to rolling.  td
\* is tempDelta and sh the keys sharing the array of the literal, as the
\* update of the literal left them.
Probe(h, lit, n, td, sh) ==
    LET found == searchBlock(searchList, h, strongHasher)
        blIdx == found.index
        win   == [start |-> spos + n - h.n, len |-> h.n]
    IN  /\ weakHasher' = h
        /\ strongHasher' = found.strong
        /\ spos' = spos + n
        /\ searchList' = found.list
        /\ probes' = Append(probes, [start |-> win.start, len |-> win.len, index |-> blIdx])
        /\ IF blIdx # -1
           THEN /\ rolling' = FALSE
                /\ tempDelta' = MapPut(td, blIdx, createOperation(blIdx, lit))
                /\ shared' = IF DataArray(blIdx, lit) = ArrayOfLiteral
                             THEN sh \cup {blIdx} ELSE sh \ {blIdx}
                /\ literal' = <<>>
                /\ matches' = Append(matches,
                                [index |-> blIdx, start |-> win.start, len |-> win.len,
                                 lit |-> lit])
           ELSE /\ rolling' = TRUE
                /\ literal' = lit
                /\ tempDelta' = td
                /\ shared' = sh
                /\ UNCHANGED matches

\* the rest of an iteration of ComputeDelta once n > 0 bytes are read: the
\* block is written when filling, its byte is rolled in when rolling.
\* literal = append(literal, oldest) stores the byte behind the literal when
\* its array has room (literal[:0] keeps the array) and moves the literal to a
\* new array when it has not; how much room append leaves is up to the
\* runtime, so both are taken.
DeltaStep(n) ==
    IF ~rolling
    THEN Probe(WriteAll(weakHasher, SubSeq(source, spos + 1, spos + n)), literal, n,
               tempDelta, shared)
    ELSE LET r == Roll(weakHasher, source[spos + 1])
         IN  \/ Probe(r.hash, Append(literal, r.out), n,
                      WriteThrough(tempDelta, shared, Len(literal) + 1, <<r.out>>), shared)
             \/ Probe(r.hash, Append(literal, r.out), n, tempDelta, {})

\* an iteration of ComputeDelta in filling mode that reads n > 0 bytes
DeltaFill ==
    /\ pc = "delta"
    /\ ~rolling
    /\ spos < Len(source)
    /\ LET n == ReadCount(read(blockSize, rolling), Len(source) - spos)
       IN  /\ afterRead(n, NoErr) = "continue"
           /\ DeltaStep(n)
           /\ reads' = Append(reads, [size |-> read(blockSize, rolling), n |-> n, err |-> NoErr])
    /\ UNCHANGED <<pc, inputs, tpos, blockLen, signature, delta, strongFound,
                   hashHistory, err>>

\* an iteration of ComputeDelta in rolling mode that reads one byte
DeltaRoll ==
    /\ pc = "delta"
    /\ rolling
    /\ spos < Len(source)
    /\ weakHasher.window # NilRing
    /\ LET n == ReadCount(read(blockSize, rolling), Len(source) - spos)
       IN  /\ afterRead(n, NoErr) = "continue"
           /\ DeltaStep(n)
           /\ reads' = Append(reads, [size |-> read(blockSize, rolling), n |-> n, err |-> NoErr])
    /\ UNCHANGED <<pc, inputs, tpos, blockLen, signature, delta, strongFound,
                   hashHistory, err>>

\* ComputeDelta behind the loop: the leftover literal becomes OpBlockNew and
\* the final delta is assembled and returned with a nil error.  The window is
\* appended to the literal as in DeltaStep, behind it or in a new array.
DeltaReturn ==
    /\ pc' = "done"
    /\ err' = NoErr
    /\ \E td \in {tempDelta,
                   IF rolling
                   THEN WriteThrough(tempDelta, shared, Len(literal) + 1,
                                     GetWindowContent(weakHasher))
                   ELSE tempDelta} :
          LET d == updateDeltaWithLiteralBlockOperation(td, weakHasher, rolling, literal)
          IN  /\ tempDelta' = d
              /\ delta' = computeFinalDelta(signature, d)
    /\ UNCHANGED <<weakHasher, strongHasher, spos, searchList, literal, rolling, shared,
                   matches, probes>>

\* the read of ComputeDelta that returns (0, io.EOF): the loop ends
DeltaEOF ==
    /\ pc = "delta"
    /\ spos = Len(source)
    /\ afterRead(0, EOF) = "break"
    /\ DeltaReturn
    /\ reads' = Append(reads, [size |-> read(blockSize, rolling), n |-> 0, err |-> EOF])
    /\ UNCHANGED <<inputs, tpos, blockLen, signature, strongFound, hashHistory>>

\* a read of ComputeDelta that returns an error other than io.EOF, with no
\* byte or with the bytes a sound read would have given: return nil, err
DeltaReadError ==
    /\ pc = "delta"
    /\ \E k \in {0, ReadCount(read(blockSize, rolling), Len(source) - spos)} :
          /\ reads' = Append(reads, [size |-> read(blockSize, rolling), n |-> k, err |-> ErrRead])
          /\ CASE afterRead(k, ErrRead) = "return err" ->
                    /\ pc' = "deltaFailed"
                    /\ err' = ErrRead
                    /\ delta' = <<>>
                    /\ spos' = spos + k
                    /\ UNCHANGED <<weakHasher, strongHasher, searchList, tempDelta,
                                   literal, rolling, shared, matches, probes>>
               [] afterRead(k, ErrRead) = "break" -> DeltaReturn
               [] OTHER ->
                    /\ DeltaStep(k)
                    /\ UNCHANGED <<pc, err, delta>>
    /\ UNCHANGED <<inputs, tpos, blockLen, signature, strongFound, hashHistory>>

Next ==
    \/ SignatureBegin
    \/ SignatureRead
    \/ SignatureEOF
    \/ SignatureReadError
    \/ DeltaBegin
    \/ DeltaFill
    \/ DeltaRoll
    \/ DeltaEOF
    \/ DeltaReadError

Spec == Init /\ [][Next]_vars

\* ------------------------------------------------------------------------
\* SpecComputeDelta: computeSignature(target) followed by computeDelta(source,
\* signature) of src/rdiff.go, the engine with the probe written inside the
\* loop and the flag strongFound.  Its computeSignature reads as
\* ComputeSignature does, statement by statement, and its updateDelta as
\* computeFinalDelta, so those are taken from above.
\* ------------------------------------------------------------------------
\* the probe inside the loop of computeDelta: whether the bucket exists, the
\* block index of its first entry with the strong hash of the window (-1 when
\* none), the search list and the strong hasher afterwards.  The strong hasher
\* is reset and written once per entry looked at, so not at all for a bucket
\* that exists but is empty.
computeDeltaSearch(sl, h, sh) ==
    LET weakHash == Sum32(h)
    IN  IF weakHash \in DOMAIN sl
        THEN LET bl  == sl[weakHash]
                 sh1 == StrongWrite(StrongReset(sh), GetWindowContent(h))
                 i   == IndexFunc(bl, StrongSumOf(sh1))
             IN  IF i # 0
                 THEN [found  |-> TRUE,
                       index  |-> bl[i].blockIndex,
                       list   |-> [sl EXCEPT ![weakHash] = Delete(bl, i)],
                       strong |-> sh1]
                 ELSE [found  |-> TRUE, index |-> -1, list |-> sl,
                       strong |-> IF Len(bl) > 0 THEN sh1 ELSE sh]
        ELSE [found |-> FALSE, index |-> -1, list |-> sl, strong |-> sh]

\* computeDelta, up to the loop
computeDeltaBegin ==
    /\ pc = "signed"
    /\ pc' = "delta"
    /\ tempDelta' = <<>>
    /\ searchList' = computeSearchList(signature)
    /\ rolling' = FALSE
    /\ literal' = <<>>
    /\ strongFound' = FALSE
    /\ shared' = {}
    /\ weakHasher' = Reset(weakHasher)
    /\ reads' = <<>>
    /\ UNCHANGED <<strongHasher, inputs, tpos, blockLen, signature, spos, delta,
                   matches, probes, hashHistory, err>>

\* the rest of an iteration of computeDelta once the window h and the literal
\* lit are updated.  A match sets strongFound and nothing clears it before
\* the next probe: a probe that finds the bucket and no entry in it then
\* takes the continue of the match, with rolling and strongFound as they were.
computeDeltaProbe(h, lit, n) ==
    LET s   == computeDeltaSearch(searchList, h, strongHasher)
        win == [start |-> spos + n - h.n, len |-> h.n]
    IN  /\ weakHasher' = h
        /\ strongHasher' = s.strong
        /\ spos' = spos + n
        /\ searchList' = s.list
        /\ probes' = Append(probes, [start |-> win.start, len |-> win.len, index |-> s.index])
        /\ UNCHANGED shared
        /\ IF s.index # -1
           THEN /\ tempDelta' = MapPut(tempDelta, s.index,
                                  Operation(IF Len(lit) > 0 THEN OpBlockUpdate ELSE OpBlockKeep,
                                            s.index, lit))
                /\ rolling' = FALSE
                /\ literal' = <<>>
                /\ strongFound' = TRUE
                /\ matches' = Append(matches,
                                [index |-> s.index, start |-> win.start, len |-> win.len,
                                 lit |-> lit])
           ELSE IF s.found /\ strongFound
           THEN /\ literal' = lit
                /\ UNCHANGED <<rolling, strongFound, tempDelta, matches>>
           ELSE /\ strongFound' = FALSE
                /\ rolling' = TRUE
                /\ literal' = lit
                /\ UNCHANGED <<tempDelta, matches>>

\* the rest of an iteration of computeDelta once n > 0 bytes are read
computeDeltaStep(n) ==
    IF ~rolling
    THEN computeDeltaProbe(WriteAll(weakHasher, SubSeq(source, spos + 1, spos + n)),
                           literal, n)
    ELSE LET r == Roll(weakHasher, source[spos + 1])
         IN  computeDeltaProbe(r.hash, Append(literal, r.out), n)

\* an iteration of computeDelta with rolling false that reads n > 0 bytes
computeDeltaFill ==
    /\ pc = "delta"
    /\ ~rolling
    /\ spos < Len(source)
    /\ LET n == ReadCount(read(blockSize, rolling), Len(source) - spos)
       IN  /\ afterRead(n, NoErr) = "continue"
           /\ computeDeltaStep(n)
           /\ reads' = Append(reads, [size |-> read(blockSize, rolling), n |-> n, err |-> NoErr])
    /\ UNCHANGED <<pc, inputs, tpos, blockLen, signature, delta, hashHistory, err>>

\* an iteration of computeDelta with rolling true that reads one byte
computeDeltaRoll ==
    /\ pc = "delta"
    /\ rolling
    /\ spos < Len(source)
    /\ weakHasher.window # NilRing
    /\ LET n == ReadCount(read(blockSize, rolling), Len(source) - spos)
       IN  /\ afterRead(n, NoErr) = "continue"
           /\ computeDeltaStep(n)
           /\ reads' = Append(reads, [size |-> read(blockSize, rolling), n |-> n, err |-> NoErr])
    /\ UNCHANGED <<pc, inputs, tpos, blockLen, signature, delta, hashHistory, err>>

\* computeDelta from the read that returns (0, io.EOF): the window is added
\* to the literal unless strongFound is set, the literal left becomes
\* OpBlockNew, and updateDelta assembles the list returned with a nil error
computeDeltaReturn ==
    LET lit == IF ~strongFound THEN literal \o GetWindowContent(weakHasher) ELSE literal
        d   == IF Len(lit) > 0
               THEN MapPut(tempDelta, NewIndex, Operation(OpBlockNew, NewIndex, lit))
               ELSE tempDelta
    IN  /\ pc' = "done"
        /\ err' = NoErr
        /\ literal' = lit
        /\ tempDelta' = d
        /\ delta' = computeFinalDelta(signature, d)
        /\ UNCHANGED <<weakHasher, strongHasher, spos, searchList, rolling, strongFound,
                       shared, matches, probes>>

computeDeltaEOF ==
    /\ pc = "delta"
    /\ spos = Len(source)
    /\ afterRead(0, EOF) = "break"
    /\ computeDeltaReturn
    /\ reads' = Append(reads, [size |-> read(blockSize, rolling), n |-> 0, err |-> EOF])
    /\ UNCHANGED <<inputs, tpos, blockLen, signature, hashHistory>>

\* a read of computeDelta that returns an error other than io.EOF, with no
\* byte or with the bytes a sound read would have given: return nil, err
computeDeltaReadError ==
    /\ pc = "delta"
    /\ \E k \in {0, ReadCount(read(blockSize, rolling), Len(source) - spos)} :
          /\ reads' = Append(reads, [size |-> read(blockSize, rolling), n |-> k, err |-> ErrRead])
          /\ CASE afterRead(k, ErrRead) = "return err" ->
                    /\ pc' = "deltaFailed"
                    /\ err' = ErrRead
                    /\ delta' = <<>>
                    /\ spos' = spos + k
                    /\ UNCHANGED <<weakHasher, strongHasher, searchList, tempDelta,
                                   literal, rolling, strongFound, shared, matches, probes>>
               [] afterRead(k, ErrRead) = "break" -> computeDeltaReturn
               [] OTHER ->
                    /\ computeDeltaStep(k)
                    /\ UNCHANGED <<pc, err, delta>>
    /\ UNCHANGED <<inputs, tpos, blockLen, signature, hashHistory>>

NextComputeDelta ==
    \/ SignatureBegin
    \/ SignatureRead
    \/ SignatureEOF
    \/ SignatureReadError
    \/ computeDeltaBegin
    \/ computeDeltaFill
    \/ computeDeltaRoll
    \/ computeDeltaEOF
    \/ computeDeltaReadError

SpecComputeDelta == Init /\ [][NextComputeDelta]_vars

\* ------------------------------------------------------------------------
\* SpecAgain: the flow of Spec on an rDiff with fresh hashers, with
\* ComputeDelta called again, any number of times, on a new reader over the
\* same source and with the same block list.
\* ------------------------------------------------------------------------
InitAgain ==
    /\ Init
    /\ weakHasher = newAdler32RollingHash
    /\ strongHasher = <<>>

\* the caller, holding the delta returned, calls ComputeDelta once more: the
\* reader is new, the rDiff and what the earlier call left in it are the same
DeltaAgain ==
    /\ pc = "done"
    /\ pc' = "signed"
    /\ spos' = 0
    /\ matches' = <<>>
    /\ probes' = <<>>
    /\ UNCHANGED <<weakHasher, strongHasher, inputs, tpos, blockLen, signature,
                   searchList, tempDelta, literal, rolling, strongFound, shared, delta,
                   hashHistory, reads, err>>

NextAgain ==
    \/ SignatureBegin
    \/ SignatureRead
    \/ SignatureEOF
    \/ SignatureReadError
    \/ DeltaBegin
    \/ DeltaFill
    \/ DeltaRoll
    \/ DeltaEOF
    \/ DeltaReadError
    \/ DeltaAgain

SpecAgain == InitAgain /\ [][NextAgain]_vars

\* ------------------------------------------------------------------------
\* SpecHash: one adler32RollingHash under arbitrary calls.
\* ------------------------------------------------------------------------
InitHash ==
    /\ pc = "hash"
    /\ weakHasher = newAdler32RollingHash
    /\ strongHasher = <<>>
    /\ blockSize = 1
    /\ newBlockSize = blockSize
    /\ target = <<>>
    /\ fileSize = I64(0)
    /\ source = <<>>
    /\ tpos = 0
    /\ blockLen = 0
    /\ signature = <<>>
    /\ spos = 0
    /\ searchList = <<>>
    /\ tempDelta = <<>>
    /\ literal = <<>>
    /\ rolling = FALSE
    /\ strongFound = FALSE
    /\ shared = {}
    /\ delta = <<>>
    /\ matches = <<>>
    /\ probes = <<>>
    /\ fed = <<>>
    /\ rolls = 0
    /\ returned = NilValue
    /\ reads = <<>>
    /\ err = NoErr

rdiffState == <<inputs, tpos, blockLen, signature, spos, deltaLocals, reads, err,
                strongHasher>>

\* WriteAll(p) with a non-empty p
HashWriteAll ==
    /\ pc = "hash"
    /\ \E p \in SeqsUpTo(MaxWriteLen) \ {<<>>} :
          /\ weakHasher' = WriteAll(weakHasher, p)
          /\ fed' = LastN(fed \o p, Len(p))
    /\ rolls' = 0
    /\ UNCHANGED <<pc, returned, rdiffState>>

\* WriteAll(p) with an empty p
HashWriteEmpty ==
    /\ pc = "hash"
    /\ weakHasher' = WriteAll(weakHasher, <<>>)
    /\ UNCHANGED <<pc, hashHistory, rdiffState>>

\* Roll(x) on an initialized window
HashRoll ==
    /\ pc = "hash"
    /\ weakHasher.window # NilRing
    /\ rolls < MaxRolls
    /\ \E x \in Bytes :
          LET r == Roll(weakHasher, x)
          IN  /\ weakHasher' = r.hash
              /\ returned' = r.out
              /\ fed' = LastN(Append(fed, x), Len(fed))
    /\ rolls' = rolls + 1
    /\ UNCHANGED <<pc, rdiffState>>

\* Roll(x) on a nil window: r.window.Value dereferences nil and panics
HashRollNil ==
    /\ pc = "hash"
    /\ weakHasher.window = NilRing
    /\ pc' = "panic"
    /\ UNCHANGED <<weakHasher, hashHistory, rdiffState>>

\* Reset()
HashReset ==
    /\ pc = "hash"
    /\ weakHasher' = Reset(weakHasher)
    /\ fed' = <<>>
    /\ rolls' = 0
    /\ UNCHANGED <<pc, returned, rdiffState>>

NextHash ==
    \/ HashWriteAll
    \/ HashWriteEmpty
    \/ HashRoll
    \/ HashRollNil
    \/ HashReset

SpecHash == InitHash /\ [][NextHash]_vars

\* ------------------------------------------------------------------------
\* SpecWide: the rolling hash over windows too long to hold byte by byte.
\* The ring is held as its runs of equal bytes, oldest first, each run a pair
\* <<byte, count>>; WriteAll is given p = v^n, n copies of one byte.
\* ------------------------------------------------------------------------
\* window lengths: short ones, MaxBlockSize, and the lengths on both sides of
\* 2^32 / 255
WideLens == {1, 2, 3, 131072, 16843009, 16843010}

\* x * y modulo M for 0 <= x, y < M, without leaving 31 bits
MulMod(x, y) == (((x * (y \div 256)) % M) * 256 + x * (y % 256)) % M

\* c * (c + 1) / 2 modulo M
TriangleMod(c) ==
    IF c % 2 = 0 THEN MulMod((c \div 2) % M, (c + 1) % M)
    ELSE MulMod(c % M, ((c + 1) \div 2) % M)

\* hash/adler32 continued from (a, b) over the bytes of the runs, as <<b, a>>:
\* c copies of v take a to a + c*v and b to b + c*a + v*c*(c+1)/2
RECURSIVE Adler32Runs(_, _, _)
Adler32Runs(runs, a, b) ==
    IF runs = <<>> THEN <<b, a>>
    ELSE LET v == Head(runs)[1]
             c == Head(runs)[2]
         IN  Adler32Runs(Tail(runs),
                         (a + MulMod(c % M, v)) % M,
                         (b + MulMod(c % M, a) + MulMod(v, TriangleMod(c))) % M)

\* the runs without their oldest byte
RunsPop(runs) ==
    IF Head(runs)[2] = 1 THEN Tail(runs)
    ELSE <<<<Head(runs)[1], Head(runs)[2] - 1>>>> \o Tail(runs)

\* the runs with x behind the newest byte
RunsPush(runs, x) ==
    IF runs # <<>> /\ runs[Len(runs)][1] = x
    THEN [runs EXCEPT ![Len(runs)] = <<x, runs[Len(runs)][2] + 1>>]
    ELSE Append(runs, <<x, 1>>)

\* WriteAll(p) for p = v^n on a fresh hash
WriteAllWide(h, v, n) ==
    LET s == Adler32Runs(<<<<v, n>>>>, 1, 0)
    IN  [a |-> s[2], b |-> s[1], n |-> n, window |-> <<<<v, n>>>>]

\* Roll(x) on a window held as runs
RollWide(h, x) ==
    LET leave == Head(h.window)[1]
        aNew  == RollA(h, x, leave)
    IN  [hash |-> [h EXCEPT !.window = RunsPush(RunsPop(h.window), x),
                            !.a = aNew,
                            !.b = RollB(h, aNew, leave)],
         out  |-> leave]

InitWide ==
    /\ pc = "wide"
    /\ weakHasher = newAdler32RollingHash
    /\ strongHasher = <<>>
    /\ blockSize = 1
    /\ newBlockSize = blockSize
    /\ target = <<>>
    /\ fileSize = I64(0)
    /\ source = <<>>
    /\ tpos = 0
    /\ blockLen = 0
    /\ signature = <<>>
    /\ spos = 0
    /\ searchList = <<>>
    /\ tempDelta = <<>>
    /\ literal = <<>>
    /\ rolling = FALSE
    /\ strongFound = FALSE
    /\ shared = {}
    /\ delta = <<>>
    /\ matches = <<>>
    /\ probes = <<>>
    /\ fed = <<>>
    /\ rolls = 0
    /\ returned = NilValue
    /\ reads = <<>>
    /\ err = NoErr

\* WriteAll(v^n) on the fresh hash
WideWriteAll ==
    /\ pc = "wide"
    /\ weakHasher.n = 0
    /\ \E n \in WideLens, v \in Bytes :
          /\ weakHasher' = WriteAllWide(weakHasher, v, n)
          /\ fed' = <<<<v, n>>>>
    /\ UNCHANGED <<pc, rolls, returned, rdiffState>>

\* Roll(x); fed keeps the runs of the last n bytes given to the hash
WideRoll ==
    /\ pc = "wide"
    /\ weakHasher.n > 0
    /\ rolls < MaxRolls
    /\ \E x \in Bytes :
          LET r == RollWide(weakHasher, x)
          IN  /\ weakHasher' = r.hash
              /\ returned' = r.out
              /\ fed' = RunsPush(RunsPop(fed), x)
    /\ rolls' = rolls + 1
    /\ UNCHANGED <<pc, rdiffState>>

NextWide ==
    \/ WideWriteAll
    \/ WideRoll

SpecWide == InitWide /\ [][NextWide]_vars

\* ------------------------------------------------------------------------
\* SpecSize: App.Signature calls up to the choice of the block size, on an
\* App made by New(newBlockSize), each for a target file of fileSize bytes.
\* The block sizes are held as limbs here.
\* ------------------------------------------------------------------------
\* block sizes given to New: negative, zero, small, and on both sides of 2^53
RequestedBlockSizes ==
    {<<65535, 65535, 65535, 65535>>, I64(0), I64(1), I64(2), I64(3), I64(350),
     I64(700), I64(701), <<32, 0, 0, 0>>, <<32, 0, 0, 1>>}

\* file sizes: empty, small, around DefaultBlockSize and its square, where
\* MaxBlockSize is reached, around 2^53, and 2^61
FileSizes ==
    {I64(0), I64(1), I64(2), I64(3), I64(4), I64(350), I64(700), I64(701),
     I64(1400), I64(490000), I64(490001), I64(1000000), <<0, 4, 65535, 65535>>,
     <<0, 5, 0, 0>>, <<32, 0, 0, 0>>, <<32, 0, 0, 1>>, <<32, 0, 0, 2>>,
     <<8192, 0, 0, 0>>}

ErrEmptyTarget == "the target file is empty"
ErrBlockSize == "the current blockSize doesn't allow splitting target in at least 2 blocks/chunks"

InitSize ==
    /\ pc = "app"
    /\ weakHasher = newAdler32RollingHash
    /\ strongHasher = <<>>
    /\ newBlockSize \in RequestedBlockSizes
    /\ blockSize = newBlockSize
    /\ fileSize \in FileSizes
    /\ target = <<>>
    /\ source = <<>>
    /\ tpos = 0
    /\ blockLen = 0
    /\ signature = <<>>
    /\ spos = 0
    /\ searchList = <<>>
    /\ tempDelta = <<>>
    /\ literal = <<>>
    /\ rolling = FALSE
    /\ strongFound = FALSE
    /\ shared = {}
    /\ delta = <<>>
    /\ matches = <<>>
    /\ probes = <<>>
    /\ fed = <<>>
    /\ rolls = 0
    /\ returned = NilValue
    /\ reads = <<>>
    /\ err = NoErr

sizeFrame == <<weakHasher, strongHasher, newBlockSize, target, source, tpos, blockLen,
               signature, spos, deltaLocals, hashHistory, reads>>

\* App.Signature on an empty target file
AppSignatureEmpty ==
    /\ pc = "app"
    /\ ~Lt64(I64(0), fileSize)
    /\ pc' = "appFailed"
    /\ err' = ErrEmptyTarget
    /\ UNCHANGED <<blockSize, fileSize, sizeFrame>>

\* App.Signature on a target file that is not empty: the block size of the
\* engine becomes what decideBlockSize returns, also when it returns an error
AppSignatureDecide ==
    /\ pc = "app"
    /\ Lt64(I64(0), fileSize)
    /\ LET d == decideBlockSize(blockSize, fileSize)
       IN  /\ blockSize' = d.blockSize
           /\ err' = IF d.failed THEN ErrBlockSize ELSE NoErr
           /\ pc' = IF d.failed THEN "appFailed" ELSE "sized"
    /\ UNCHANGED <<fileSize, sizeFrame>>

\* a further App.Signature call on the same App, for a target file of any
\* size: the engine, and with it its block size, is the one the earlier call
\* left
AppSignatureNext ==
    /\ pc \in {"sized", "appFailed"}
    /\ pc' = "app"
    /\ fileSize' \in FileSizes
    /\ UNCHANGED <<blockSize, err, sizeFrame>>

NextSize ==
    \/ AppSignatureEmpty
    \/ AppSignatureDecide
    \/ AppSignatureNext

SpecSize == InitSize /\ [][NextSize]_vars

\* ------------------------------------------------------------------------
\* SpecApp: App.Signature on an App made by New(newBlockSize), from the
\* choice of the block size through the loop of ComputeSignature over the
\* target file, and then ComputeDelta over a source with the block size the
\* App is left with.  A Read into a buffer of no bytes returns (0, nil): it is
\* os.File's and bytes.Reader's answer while bytes are left.
\* ------------------------------------------------------------------------
\* the reads of one ComputeSignature call that are followed
MaxReads == 6

\* int(x) of an int64 that fits a machine word of the model
IntOf(w) == w[3] * 65536 + w[4]

InitApp ==
    /\ pc = "app"
    /\ weakHasher = newAdler32RollingHash
    /\ strongHasher = <<>>
    /\ newBlockSize \in 0..MaxB
    /\ blockSize = newBlockSize
    /\ target \in SeqsUpTo(MaxTargetLen) \ {<<>>}
    /\ fileSize = I64(Len(target))
    /\ source \in SeqsUpTo(MaxSourceLen)
    /\ tpos = 0
    /\ blockLen = 0
    /\ signature = <<>>
    /\ spos = 0
    /\ searchList = <<>>
    /\ tempDelta = <<>>
    /\ literal = <<>>
    /\ rolling = FALSE
    /\ strongFound = FALSE
    /\ shared = {}
    /\ delta = <<>>
    /\ matches = <<>>
    /\ probes = <<>>
    /\ fed = <<>>
    /\ rolls = 0
    /\ returned = NilValue
    /\ reads = <<>>
    /\ err = NoErr

\* App.Signature on a target file that is not empty, up to the call of
\* ComputeSignature: the block size of the engine becomes what decideBlockSize
\* returns, and the call goes on unless that is an error
AppSignatureSized ==
    /\ pc = "app"
    /\ Lt64(I64(0), fileSize)
    /\ LET d == decideBlockSize(I64(blockSize), fileSize)
       IN  /\ blockSize' = IntOf(d.blockSize)
           /\ err' = IF d.failed THEN ErrBlockSize ELSE NoErr
           /\ pc' = IF d.failed THEN "appFailed" ELSE "new"
    /\ UNCHANGED <<weakHasher, strongHasher, newBlockSize, target, fileSize, source,
                   tpos, blockLen, signature, spos, deltaLocals, hashHistory, reads>>

\* an iteration of the loop of ComputeSignature, among the first MaxReads
SignatureReadCounted ==
    /\ Len(reads) < MaxReads
    /\ SignatureRead

NextApp ==
    \/ AppSignatureSized
    \/ SignatureBegin
    \/ SignatureReadCounted
    \/ SignatureEOF
    \/ SignatureReadError
    \/ DeltaBegin
    \/ DeltaFill
    \/ DeltaRoll
    \/ DeltaEOF
    \/ DeltaReadError

SpecApp == InitApp /\ [][NextApp]_vars

\* ------------------------------------------------------------------------
\* Vocabulary of the properties.
\* ------------------------------------------------------------------------
\* number of blocks of the target: ceil(len(target) / B)
NumBlocks == (Len(target) + blockSize - 1) \div blockSize

\* target bytes [i*B, min((i+1)*B, len(target))), i counted from 0
TargetBlock(i) ==
    SubSeq(target, i * blockSize + 1, Min((i + 1) * blockSize, Len(target)))

\* source bytes [from, to), offsets counted from 0
SourceBytes(from, to) == SubSeq(source, from + 1, to)

\* the bytes an operation emits when it is applied to the target
Emit(op) ==
    IF op.Type = OpBlockKeep THEN TargetBlock(op.BlockIndex)
    ELSE IF op.Type = OpBlockUpdate THEN op.Data \o TargetBlock(op.BlockIndex)
    ELSE IF op.Type = OpBlockNew THEN op.Data
    ELSE <<>>

\* the result of applying an operation list to the target, in list order
RECURSIVE ApplyOps(_)
ApplyOps(ops) == IF ops = <<>> THEN <<>> ELSE Emit(Head(ops)) \o ApplyOps(Tail(ops))

\* p occurs in s at some offset
Occurs(p, s) ==
    \E off \in 0..(Len(s) - Len(p)) : SubSeq(s, off + 1, off + Len(p)) = p

Returned == pc = "done"

\* ------------------------------------------------------------------------
\* C1. Reconstruction law: applying the delta of (source, signature of the
\* target) to the target, in list order, yields exactly the source.
\* The code orders the operations by target block index, so a source that
\* holds the target's blocks in another order is not reconstructed.
\* ------------------------------------------------------------------------
C1_Reconstruction == Returned => ApplyOps(delta) = source

\* ------------------------------------------------------------------------
\* C2. Rolling-hash equivalence: after WriteAll(p) with a non-empty p and
\* k >= 1 calls of Roll, Sum32 is the classical Adler-32 of the last |p|
\* bytes fed, for every non-empty p.
\* ------------------------------------------------------------------------
C2_RollingEquivalenceWide ==
    (pc = "wide" /\ rolls >= 1) => Sum32(weakHasher) = Adler32Runs(fed, 1, 0)

\* the same over the windows of SpecHash, at most MaxWriteLen bytes long
RollingEquivalenceShort ==
    (pc = "hash" /\ rolls >= 1) => Sum32(weakHasher) = Adler32(fed)

\* the bytes of a list of runs
RECURSIVE Expand(_)
Expand(runs) ==
    IF runs = <<>> THEN <<>>
    ELSE [i \in 1..Head(runs)[2] |-> Head(runs)[1]] \o Expand(Tail(runs))

\* over short windows the runs stand for the bytes: the ring holds the bytes
\* fed and Adler32Runs is hash/adler32 of them
RunsAgree ==
    (pc = "wide" /\ weakHasher.n \in 1..3) =>
        /\ weakHasher.window = fed
        /\ Len(Expand(fed)) = weakHasher.n
        /\ Adler32Runs(fed, 1, 0) = Adler32(Expand(fed))

\* the equivalence still holds one byte below 2^32 / 255
RollingEquivalenceBelowWrap ==
    (pc = "wide" /\ rolls >= 1 /\ weakHasher.n <= 16843009) =>
        Sum32(weakHasher) = Adler32Runs(fed, 1, 0)

\* ------------------------------------------------------------------------
\* C3. Window content round trip: after any sequence of WriteAll and Roll
\* calls GetWindowContent returns, oldest first, the last n bytes fed, n
\* the length of the last non-empty WriteAll input; it is empty on a hash
\* never written or reset.
\* ------------------------------------------------------------------------
C3_WindowRoundTrip ==
    pc = "hash" =>
        /\ GetWindowContent(weakHasher) = fed
        /\ weakHasher.window = NilRing => GetWindowContent(weakHasher) = <<>>

\* a WriteAll of the window's length issued after some rolls: the ring handle
\* is away from the first element although nothing was rolled since the write
C3_Witness ==
    /\ pc = "hash"
    /\ rolls = 0
    /\ weakHasher.n = 3
    /\ weakHasher.window.at = 2
    /\ GetWindowContent(weakHasher) = <<0, 255, 255>>

\* ------------------------------------------------------------------------
\* C4. Signature block layout: ComputeSignature returns ceil(len/B) blocks,
\* block i holding the Adler-32 and the strong digest of target bytes
\* [i*B, min((i+1)*B, len)); only the final block may be shorter than B.
\* ------------------------------------------------------------------------
C4_SignatureLayout ==
    /\ pc \in {"signature", "signed", "delta", "done"} =>
          \A i \in 0..(Len(signature) - 1) :
              signature[i + 1] = Block(StrongSum(TargetBlock(i)), Adler32(TargetBlock(i)))
    /\ pc \in {"signed", "delta", "done"} =>
          /\ Len(signature) = NumBlocks
          /\ \A i \in 0..(NumBlocks - 2) : Len(TargetBlock(i)) = blockSize
          /\ NumBlocks > 0 =>
                /\ Len(TargetBlock(NumBlocks - 1)) >= 1
                /\ Len(TargetBlock(NumBlocks - 1)) <= blockSize

C4_Witness ==
    /\ pc = "signed"
    /\ blockSize = 3
    /\ Len(target) = 4
    /\ Len(signature) = 2
    /\ signature[2] = Block(StrongSum(<<target[4]>>), Adler32(<<target[4]>>))

\* ------------------------------------------------------------------------
\* More vocabulary: the operations of the returned delta and the matches.
\* ------------------------------------------------------------------------
\* the operations of the returned delta that refer to target block i
OpsAt(i) == {k \in 1..Len(delta) : delta[k].BlockIndex = i}

\* the offset where the matched window before match j ended (0 for the first)
PrevEnd(j) == IF j = 1 THEN 0 ELSE matches[j - 1].start + matches[j - 1].len

\* the bytes of the source window of a probe or a match
WindowBytes(w) == SourceBytes(w.start, w.start + w.len)

\* the target positions holding content c, and how many of them are below i
PositionsOf(c) == {i \in 0..(NumBlocks - 1) : TargetBlock(i) = c}
Rank(c, i) == Cardinality({x \in PositionsOf(c) : x < i})

\* the probes before probe j that hit with the window content c
HitsBefore(c, j) ==
    {x \in 1..(j - 1) : probes[x].index # -1 /\ WindowBytes(probes[x]) = c}

\* ------------------------------------------------------------------------
\* C5. Match soundness: every Keep(i) or Update(i, d) of the delta stands
\* for a window of the source whose bytes are those of target block i, and
\* the d of an Update is exactly the source bytes between the end of the
\* previous matched window (or the start of the source) and this window.
\* ------------------------------------------------------------------------
C5_MatchSoundness ==
    Returned =>
        \A k \in 1..Len(delta) :
            delta[k].Type \in {OpBlockKeep, OpBlockUpdate} =>
                \E j \in 1..Len(matches) :
                    /\ matches[j].index = delta[k].BlockIndex
                    /\ matches[j].start >= PrevEnd(j)
                    /\ matches[j].start + matches[j].len <= Len(source)
                    /\ WindowBytes(matches[j]) = TargetBlock(delta[k].BlockIndex)
                    /\ delta[k].Type = OpBlockUpdate =>
                          delta[k].Data = SourceBytes(PrevEnd(j), matches[j].start)

\* two matches, the second behind literal bytes that follow the first window
C5_Witness ==
    /\ Returned
    /\ Len(matches) = 2
    /\ matches[2].start > PrevEnd(2)
    /\ matches[2].len = 2
    /\ delta[matches[2].index + 1].Type = OpBlockUpdate

\* ------------------------------------------------------------------------
\* C6. Remove(i) is emitted only if the content of target block i does not
\* appear in the source at any byte offset.
\* ------------------------------------------------------------------------
\* the claim as stated
C6_RemoveOnlyIfAbsent ==
    Returned =>
        \A k \in 1..Len(delta) :
            delta[k].Type = OpBlockRemove =>
                ~Occurs(TargetBlock(delta[k].BlockIndex), source)

\* as amended: Remove(i) is emitted exactly when no probe was bound to i,
\* which is the case whenever the content of block i is absent from the source
C6_RemoveIffUnmatched ==
    Returned =>
        \A i \in 0..(NumBlocks - 1) :
            /\ (\E k \in OpsAt(i) : delta[k].Type = OpBlockRemove)
                  <=> ~(\E j \in 1..Len(matches) : matches[j].index = i)
            /\ ~Occurs(TargetBlock(i), source) =>
                  \E k \in OpsAt(i) : delta[k].Type = OpBlockRemove

\* a block removed because it is absent, beside one removed although present
C6_Witness ==
    /\ Returned
    /\ NumBlocks >= 2
    /\ \E i, j \in 0..(NumBlocks - 1) :
          /\ delta[i + 1].Type = OpBlockRemove
          /\ delta[j + 1].Type = OpBlockRemove
          /\ ~Occurs(TargetBlock(i), source)
          /\ Occurs(TargetBlock(j), source)

\* ------------------------------------------------------------------------
\* C7. Duplicate-block ordering: with the same content at target positions
\* i1 < ... < im, the k-th confirmed occurrence binds to ik, and every
\* occurrence after the m-th is not matched but ends up in literal data.
\* ------------------------------------------------------------------------
\* the binding: a probe that hits with content c after k earlier hits with c
\* is bound to the position of rank k among those holding c, and no probe
\* hits with c once all the positions holding c are bound
C7_Binding ==
    \A j \in 1..Len(probes) :
        LET c == WindowBytes(probes[j])
            k == Cardinality(HitsBefore(c, j))
        IN  /\ probes[j].index # -1 =>
                /\ probes[j].index \in PositionsOf(c)
                /\ Rank(c, probes[j].index) = k
            /\ k >= Cardinality(PositionsOf(c)) => probes[j].index = -1

\* two windows of the source that share a byte
Overlaps(w, m) == w.start < m.start + m.len /\ m.start < w.start + w.len

\* probe j is an occurrence, after the last one that could be bound, of a
\* content the target holds
LateOccurrence(j) ==
    LET c == WindowBytes(probes[j])
    IN  /\ PositionsOf(c) # {}
        /\ Cardinality(HitsBefore(c, j)) >= Cardinality(PositionsOf(c))

\* the late occurrences lie wholly in literal data: no matched window shares
\* a byte with them
C7_LateInLiteral ==
    Returned =>
        \A j \in 1..Len(probes) :
            LateOccurrence(j) =>
                ~\E x \in 1..Len(matches) : Overlaps(probes[j], matches[x])

\* the claim as stated
C7_DuplicateOrdering == C7_Binding /\ C7_LateInLiteral

\* as amended: the binding holds; a late occurrence is not matched, its first
\* byte is never part of a matched window, and a matched window can share
\* bytes with it only by starting inside it, with another content
C7_DuplicateOrderingAmended ==
    /\ C7_Binding
    /\ Returned =>
          \A j \in 1..Len(probes) :
              LateOccurrence(j) =>
                  /\ probes[j].index = -1
                  /\ \A x \in 1..Len(matches) :
                        Overlaps(probes[j], matches[x]) =>
                            /\ matches[x].start > probes[j].start
                            /\ WindowBytes(matches[x]) # WindowBytes(probes[j])

\* a content held twice by the target and met three times in the source: the
\* first two occurrences bind to the two positions in order, the third misses
C7_Witness ==
    /\ Returned
    /\ blockSize = 2
    /\ NumBlocks = 2
    /\ TargetBlock(0) = TargetBlock(1)
    /\ Len(probes) >= 3
    /\ probes[1].index = 0
    /\ probes[2].index = 1
    /\ probes[3].index = -1
    /\ WindowBytes(probes[3]) = TargetBlock(0)

\* ------------------------------------------------------------------------
\* C8. No-change law: the delta of a target against itself is
\* [Keep(0), ..., Keep(T-1)], with no Update, Remove or New.
\* ------------------------------------------------------------------------
C8_NoChange ==
    (Returned /\ source = target) =>
        delta = [i \in 1..NumBlocks |-> Operation(OpBlockKeep, i - 1, <<>>)]

\* a target with a repeated block and a shorter trailing block
C8_Witness ==
    /\ Returned
    /\ source = target
    /\ blockSize = 2
    /\ Len(target) = 5
    /\ TargetBlock(0) = TargetBlock(1)
    /\ Len(delta) = 3
    /\ delta[3] = Operation(OpBlockKeep, 2, <<>>)

\* ------------------------------------------------------------------------
\* C9. Empty-target law: with an empty block list the delta of a non-empty
\* source s is exactly [New(-1, s)], whatever the length of s; the delta of
\* an empty source is the empty list.
\* ------------------------------------------------------------------------
C9_EmptyTarget ==
    (Returned /\ signature = <<>>) =>
        delta = IF source = <<>> THEN <<>>
                ELSE <<Operation(OpBlockNew, -1, source)>>

\* a source longer than the block size against an empty block list
C9_Witness ==
    /\ Returned
    /\ signature = <<>>
    /\ blockSize = 2
    /\ Len(source) = 5
    /\ delta = <<Operation(OpBlockNew, -1, source)>>

\* ------------------------------------------------------------------------
\* C10. Empty-source law: the delta of an empty source is exactly
\* [Remove(0), ..., Remove(T-1)], with no New.
\* ------------------------------------------------------------------------
C10_EmptySource ==
    (Returned /\ source = <<>>) =>
        delta = [i \in 1..Len(signature) |-> Operation(OpBlockRemove, i - 1, <<>>)]

C10_Witness ==
    /\ Returned
    /\ source = <<>>
    /\ Len(signature) = 3
    /\ delta = <<Operation(OpBlockRemove, 0, <<>>), Operation(OpBlockRemove, 1, <<>>),
                 Operation(OpBlockRemove, 2, <<>>)>>

\* ------------------------------------------------------------------------
\* C11. Assembled delta shape: for a target of T blocks the delta has T or
\* T + 1 operations; the operation at position i (from 0) has block index i
\* and is Keep, Update or Remove; a New operation, if present, is the only
\* one and is the last element.
\* ------------------------------------------------------------------------
C11_DeltaShape ==
    Returned =>
        /\ NumBlocks = Len(signature)
        /\ Len(delta) \in {NumBlocks, NumBlocks + 1}
        /\ \A i \in 1..NumBlocks :
              /\ delta[i].BlockIndex = i - 1
              /\ delta[i].Type \in {OpBlockKeep, OpBlockUpdate, OpBlockRemove}
        /\ \A k \in 1..Len(delta) :
              delta[k].Type = OpBlockNew => k = Len(delta) /\ k = NumBlocks + 1
        /\ Len(delta) = NumBlocks + 1 => delta[Len(delta)].Type = OpBlockNew

\* a delta of T + 1 operations holding a Keep, an Update, a Remove and the New
C11_Witness ==
    /\ Returned
    /\ NumBlocks = 3
    /\ Len(delta) = 4
    /\ {delta[k].Type : k \in 1..3} = {OpBlockKeep, OpBlockUpdate, OpBlockRemove}
    /\ delta[4].Type = OpBlockNew

Observed(h) == <<h.a, h.b, h.n, GetWindowContent(h)>>

\* the states with rolls = 0 and a non-empty fed are those reached by a
\* WriteAll(fed), possibly followed by WriteAll of nothing
C13_WriteAllIsResetThenWrite ==
    (pc = "hash" /\ rolls = 0 /\ fed # <<>>) =>
        /\ Sum32(weakHasher) = Adler32(fed)
        /\ GetWindowContent(weakHasher) = fed
        /\ weakHasher.n = Len(fed)
        /\ Observed(weakHasher) = Observed(WriteAll(Reset(weakHasher), fed))

\* a WriteAll into the ring of an earlier window of the same size, after one
\* Roll has moved the handle
C13_Witness ==
    /\ pc = "hash"
    /\ rolls = 0
    /\ fed = <<255, 0>>
    /\ weakHasher.window.at = 2
    /\ Sum32(weakHasher) = Adler32(<<255, 0>>)

\* ------------------------------------------------------------------------
\* C14. Delta read errors: if a read of the source returns an error other
\* than io.EOF (with or without bytes, with or without matches recorded),
\* ComputeDelta returns that error and no operation list; io.EOF itself is
\* never returned as an error.
\* ------------------------------------------------------------------------
\* some read of the running call returned an error other than io.EOF
ReadFailed == \E i \in 1..Len(reads) : reads[i].err = ErrRead

C14_DeltaReadErrors ==
    pc \in {"delta", "done", "deltaFailed"} =>
        /\ ReadFailed =>
              /\ pc = "deltaFailed"
              /\ err = ErrRead
              /\ delta = <<>>
              /\ reads[Len(reads)].err = ErrRead
        /\ pc = "deltaFailed" => ReadFailed
        /\ pc = "done" =>
              /\ err = NoErr
              /\ reads[Len(reads)].n = 0 /\ reads[Len(reads)].err = EOF

\* a failing read that brings a whole block, after a match and in rolling mode
\* with a literal collected
C14_Witness ==
    /\ pc = "deltaFailed"
    /\ err = ErrRead
    /\ matches # <<>>
    /\ literal # <<>>
    /\ reads[Len(reads)].n > 0
    /\ delta = <<>>

\* ------------------------------------------------------------------------
\* C15. Signature read errors: if a read of the target returns an error other
\* than io.EOF, ComputeSignature returns that error together with exactly the
\* blocks of the reads completed before it, and no block for the failing read.
\* ------------------------------------------------------------------------
\* the offset in the stream where read i of the running call began
RECURSIVE ReadOffset(_)
ReadOffset(i) == IF i = 1 THEN 0 ELSE ReadOffset(i - 1) + reads[i - 1].n

\* the target bytes read i delivered
ReadBytes(i) == SubSeq(target, ReadOffset(i) + 1, ReadOffset(i) + reads[i].n)

C15_SignatureReadErrors ==
    /\ pc \in {"signature", "signed"} => ~ReadFailed
    /\ pc = "signatureFailed" =>
          /\ err = ErrRead
          /\ reads[Len(reads)].err = ErrRead
          /\ Len(signature) = Len(reads) - 1
          /\ \A i \in 1..(Len(reads) - 1) :
                /\ reads[i].err = NoErr
                /\ reads[i].n > 0
                /\ signature[i] = Block(StrongSum(ReadBytes(i)), Adler32(ReadBytes(i)))
    /\ pc = "signed" => err = NoErr

\* two blocks produced, then a failing read that brings the bytes of a third
C15_Witness ==
    /\ pc = "signatureFailed"
    /\ Len(signature) = 2
    /\ Len(reads) = 3
    /\ reads[3].n > 0
    /\ tpos = Len(target)

\* ------------------------------------------------------------------------
\* C16. Roll on a hash whose window is uninitialized (fresh, or reset, with no
\* non-empty WriteAll since) panics: it returns no byte and changes neither
\* a, b nor the window.
\* ------------------------------------------------------------------------
\* nothing was written since the hash was made or last reset
Uninitialized == fed = <<>>

C16_RollUninitialized ==
    [][(pc = "hash" /\ Uninitialized) =>
          /\ rolls' # rolls + 1
          /\ returned' = returned
          /\ pc' = "panic" => weakHasher' = weakHasher /\ weakHasher.window = NilRing
          /\ weakHasher'.window = NilRing \/ fed' # <<>>]_vars

\* the panic of a Roll issued behind a Reset that followed a Roll
C16_Witness ==
    /\ pc = "panic"
    /\ returned # NilValue
    /\ weakHasher = newAdler32RollingHash

\* ------------------------------------------------------------------------
\* C17. Determinism under reuse: for a fixed block size and strong hash,
\* ComputeSignature(t) and ComputeDelta(s, blocks) depend only on their
\* inputs: on hashers already used by earlier calls they return what they
\* return on fresh ones.
\* ------------------------------------------------------------------------
\* ComputeSignature over a sound reader of t, from the hashers h and sh on:
\* the loop from offset pos with len(block) = bLen and the output out so far
RECURSIVE SignatureLoop(_, _, _, _, _, _)
SignatureLoop(t, pos, bLen, h, sh, out) ==
    IF pos = Len(t) THEN out
    ELSE LET n     == ReadCount(bLen, Len(t) - pos)
             block == SubSeq(t, pos + 1, pos + n)
             sh1   == StrongWrite(StrongReset(sh), block)
             h1    == WriteAll(h, block)
         IN  SignatureLoop(t, pos + n, n, h1, sh1,
                           Append(out, Block(StrongSumOf(sh1), Sum32(h1))))

\* ComputeSignature(t) on an rDiff of block size B with fresh hashers
ComputeSignatureFresh(t, B) ==
    SignatureLoop(t, 0, B, Reset(newAdler32RollingHash), <<>>, <<>>)

\* ComputeDelta over a sound reader of s: the loop from the locals st on
RECURSIVE DeltaLoop(_, _, _, _)
DeltaLoop(s, blockList, B, st) ==
    IF st.pos = Len(s)
    THEN computeFinalDelta(blockList,
             updateDeltaWithLiteralBlockOperation(st.tempDelta, st.h, st.rolling,
                                                  st.literal))
    ELSE LET n     == ReadCount(read(B, st.rolling), Len(s) - st.pos)
             r     == Roll(st.h, s[st.pos + 1])
             h1    == IF st.rolling THEN r.hash
                      ELSE WriteAll(st.h, SubSeq(s, st.pos + 1, st.pos + n))
             lit   == IF st.rolling THEN Append(st.literal, r.out) ELSE st.literal
             found == searchBlock(st.searchList, h1, st.sh)
             hit   == found.index # -1
         IN  DeltaLoop(s, blockList, B,
                 [pos        |-> st.pos + n,
                  h          |-> h1,
                  sh         |-> found.strong,
                  searchList |-> found.list,
                  tempDelta  |-> IF hit
                                 THEN MapPut(st.tempDelta, found.index,
                                             createOperation(found.index, lit))
                                 ELSE st.tempDelta,
                  literal    |-> IF hit THEN <<>> ELSE lit,
                  rolling    |-> ~hit])

\* ComputeDelta(s, blockList) on an rDiff of block size B with fresh hashers
ComputeDeltaFresh(s, blockList, B) ==
    DeltaLoop(s, blockList, B,
        [pos        |-> 0,
         h          |-> Reset(newAdler32RollingHash),
         sh         |-> <<>>,
         searchList |-> computeSearchList(blockList),
         tempDelta  |-> <<>>,
         literal    |-> <<>>,
         rolling    |-> FALSE])

C17_DeterminismUnderReuse ==
    /\ pc = "signed" => signature = ComputeSignatureFresh(target, blockSize)
    /\ pc = "done" => delta = ComputeDeltaFresh(source, signature, blockSize)

\* a delta with a match and an update, computed on the hashers that
\* ComputeSignature left behind after two blocks
C17_Witness ==
    /\ pc = "done"
    /\ Len(signature) >= 2
    /\ \E k \in 1..Len(delta) : delta[k].Type = OpBlockUpdate
    /\ delta = ComputeDeltaFresh(source, signature, blockSize)

\* ------------------------------------------------------------------------
\* Vocabulary of the block size policy.
\* ------------------------------------------------------------------------
\* a step of App.Signature that calls decideBlockSize
Decides == pc = "app" /\ pc' # "app" /\ Lt64(I64(0), fileSize)

\* ceil(size / bSize) >= 2 for size >= 1 and bSize >= 1
AtLeastTwoChunks(size, bSize) == LtU64(bSize, size)

\* w < 2^53: every such integer is a float64
Below2p53(w) == LtU64(w, <<32, 0, 0, 0>>)

\* ------------------------------------------------------------------------
\* C18. Block size policy for B > 0: decideBlockSize(B, fileSize) returns B
\* with no error if and only if ceil(fileSize / B) >= 2; otherwise it
\* returns an error and no usable block size.
\* ------------------------------------------------------------------------
C18_FixedBlockSize ==
    [][(Decides /\ Lt64(I64(0), blockSize)) =>
          IF AtLeastTwoChunks(fileSize, blockSize)
          THEN err' = NoErr /\ blockSize' = blockSize
          ELSE err' = ErrBlockSize /\ blockSize' = I64(0)]_vars

\* the same for files of less than 2^53 bytes
FixedBlockSizeBelow2p53 ==
    [][(Decides /\ Lt64(I64(0), blockSize) /\ Below2p53(fileSize)) =>
          IF AtLeastTwoChunks(fileSize, blockSize)
          THEN err' = NoErr /\ blockSize' = blockSize
          ELSE err' = ErrBlockSize /\ blockSize' = I64(0)]_vars

\* ------------------------------------------------------------------------
\* C19. Dynamic block size policy: for every B <= 0 and every file size >= 1
\* decideBlockSize returns, without error, a block size >= 1 that splits the
\* file into at least two chunks, falling back to floor(fileSize / 2) when
\* the heuristic value would give fewer than two chunks.
\* ------------------------------------------------------------------------
C19_DynamicPolicy ==
    [][(Decides /\ ~Lt64(I64(0), blockSize)) =>
          LET dyn == I64(computeDynamicBlockSize(fileSize))
          IN  /\ err' = NoErr
              /\ Lt64(I64(0), blockSize')
              /\ AtLeastTwoChunks(fileSize, blockSize')
              /\ blockSize' = IF AtLeastTwoChunks(fileSize, dyn) THEN dyn
                              ELSE Shr1(fileSize)]_vars

\* the same for files of at least two bytes
DynamicPolicyFromTwoBytes ==
    [][(Decides /\ ~Lt64(I64(0), blockSize) /\ Lt64(I64(1), fileSize)) =>
          LET dyn == I64(computeDynamicBlockSize(fileSize))
          IN  /\ err' = NoErr
              /\ Lt64(I64(0), blockSize')
              /\ AtLeastTwoChunks(fileSize, blockSize')
              /\ blockSize' = IF AtLeastTwoChunks(fileSize, dyn) THEN dyn
                              ELSE Shr1(fileSize)]_vars

\* ------------------------------------------------------------------------
\* C20. computeDynamicBlockSize(fLen) is DefaultBlockSize for every
\* fLen <= 700 * 700 and, for every larger fLen, a value within
\* [DefaultBlockSize, MaxBlockSize] whose square does not exceed fLen unless
\* it was raised to DefaultBlockSize or capped at MaxBlockSize.
\* ------------------------------------------------------------------------
C20_DynamicBlockSize ==
    [][(Decides /\ ~Lt64(I64(0), blockSize)) =>
          LET r == computeDynamicBlockSize(fileSize)
          IN  /\ ~Lt64(I64(DefaultBlockSize * DefaultBlockSize), fileSize) =>
                    r = DefaultBlockSize
              /\ Lt64(I64(DefaultBlockSize * DefaultBlockSize), fileSize) =>
                    /\ r \in DefaultBlockSize..MaxBlockSize
                    /\ \/ ~Lt64(fileSize, Square64(r))
                       \/ r = DefaultBlockSize
                       \/ r = MaxBlockSize
              /\ AtLeastTwoChunks(fileSize, I64(r)) => blockSize' = I64(r)]_vars

\* a file of 1,000,000 bytes given the block size 1000, its square root
C20_Witness ==
    /\ pc = "sized"
    /\ fileSize = I64(1000000)
    /\ blockSize = I64(1000)
    /\ err = NoErr

\* ------------------------------------------------------------------------
\* C21. On an App constructed with blockSize <= 0, every Signature call, a
\* second or later one on the same App included, uses the block size computed
\* dynamically from the size of the target file of that call.
\* ------------------------------------------------------------------------
C21_DynamicOnEveryCall ==
    [][(Decides /\ ~Lt64(I64(0), newBlockSize)) =>
          /\ pc' = "sized"
          /\ blockSize' = decideBlockSize(newBlockSize, fileSize).blockSize]_vars

\* what does hold: the call is dynamic while the engine still holds a block
\* size that is not positive, as it does on the first call
DynamicWhileNotPositive ==
    [][(Decides /\ ~Lt64(I64(0), newBlockSize) /\ ~Lt64(I64(0), blockSize)) =>
          /\ pc' = "sized"
          /\ blockSize' = decideBlockSize(newBlockSize, fileSize).blockSize]_vars

\* ------------------------------------------------------------------------
\* C22. Mode transitions of the delta builder: it starts filling with an
\* empty literal; after every confirmed match it is filling and the literal is
\* empty; after every probe miss (no bucket for the window, or a bucket,
\* possibly emptied, with no entry of the window's strong hash) it is rolling;
\* and every read asks for one byte when rolling, for blockSize bytes when
\* filling.
\* ------------------------------------------------------------------------
BeginsDelta == pc = "signed" /\ pc' = "delta"

\* a step that probes the index, and the probe it made
ProbeStep == Len(probes') = Len(probes) + 1
LastProbe == probes'[Len(probes')]

\* the index sl holds an entry for the window of h
HasEntry(sl, h) ==
    /\ Sum32(h) \in DOMAIN sl
    /\ \E i \in 1..Len(sl[Sum32(h)]) :
          sl[Sum32(h)][i].strongHash = StrongSum(GetWindowContent(h))

\* a step of the delta builder that reads, and the read it made
DeltaReadStep == pc = "delta" /\ Len(reads') = Len(reads) + 1
LastRead == reads'[Len(reads')]

C22_ModeTransitions ==
    [][/\ BeginsDelta => (~rolling' /\ literal' = <<>>)
       /\ (ProbeStep /\ LastProbe.index # -1) => (~rolling' /\ literal' = <<>>)
       /\ (ProbeStep /\ ~HasEntry(searchList, weakHasher')) => rolling'
       /\ DeltaReadStep => LastRead.size = (IF rolling THEN 1 ELSE blockSize)]_vars

\* ------------------------------------------------------------------------
\* C23. Stream termination: when the source ends in sliding mode, that is
\* after a probe that missed, the whole window is appended to the literal
\* bytes collected; when it ends in filling mode nothing is appended; a New
\* operation is recorded under key -1 if and only if the resulting literal is
\* not empty, with that literal as its data, and nothing else is recorded.
\* ------------------------------------------------------------------------
EndsDelta == pc = "delta" /\ pc' = "done"

LastProbeMissed == probes # <<>> /\ probes[Len(probes)].index = -1

FinalLiteral ==
    IF LastProbeMissed THEN literal \o GetWindowContent(weakHasher) ELSE literal

C23_StreamTermination ==
    [][EndsDelta =>
          /\ rolling <=> LastProbeMissed
          /\ (NewIndex \in DOMAIN tempDelta') <=> (FinalLiteral # <<>>)
          /\ FinalLiteral # <<>> =>
                tempDelta'[NewIndex] = Operation(OpBlockNew, NewIndex, FinalLiteral)
          /\ \A k \in DOMAIN tempDelta' \ {NewIndex} :
                k \in DOMAIN tempDelta /\ tempDelta'[k] = tempDelta[k]]_vars

\* what both engines do: the window is appended exactly when the rolling flag
\* is set at the end of the stream
TerminationByRollingFlag ==
    [][EndsDelta =>
          LET lit == IF rolling THEN literal \o GetWindowContent(weakHasher) ELSE literal
          IN  /\ (NewIndex \in DOMAIN tempDelta') <=> (lit # <<>>)
              /\ lit # <<>> => tempDelta'[NewIndex] = Operation(OpBlockNew, NewIndex, lit)]_vars

\* ------------------------------------------------------------------------
\* C24. On a confirmed match at target index i the pending entry for i is
\* Keep(i) when the literal is empty and Update(i, d) otherwise, d being the
\* literal at that moment; and an operation once recorded is not changed by
\* any later step: the literal being cleared and refilled, later matches, the
\* final assembly.
\* ------------------------------------------------------------------------
\* the literal at the probe of this step: in rolling mode the byte that
\* leaves the window has been added to it
LiteralAtProbe ==
    IF rolling THEN Append(literal, GetWindowContent(weakHasher)[1]) ELSE literal

C24_RecordedOperations ==
    [][/\ (ProbeStep /\ LastProbe.index # -1) =>
             tempDelta'[LastProbe.index] =
                 IF LiteralAtProbe = <<>>
                 THEN Operation(OpBlockKeep, LastProbe.index, <<>>)
                 ELSE Operation(OpBlockUpdate, LastProbe.index, LiteralAtProbe)
       /\ \A k \in DOMAIN tempDelta :
             \/ ProbeStep /\ LastProbe.index = k
             \/ k \in DOMAIN tempDelta' /\ tempDelta'[k] = tempDelta[k]
       /\ EndsDelta =>
             \A k \in DOMAIN tempDelta : delta'[k + 1] = tempDelta[k]]_vars

\* two updates recorded with different literals, the first one still intact
\* in the delta returned
C24_Witness ==
    /\ pc = "done"
    /\ Len(matches) >= 2
    /\ matches[1].lit # <<>>
    /\ matches[2].lit # <<>>
    /\ matches[1].lit # matches[2].lit
    /\ delta[matches[1].index + 1] =
          Operation(OpBlockUpdate, matches[1].index, matches[1].lit)

\* ------------------------------------------------------------------------
\* C25. Probe protocol: a probe returns a block index only if the bucket of
\* the window's weak hash exists and holds an entry with the strong hash of
\* the window; a hit removes that one entry, the first such in target order,
\* and leaves every other entry and bucket as it was; a miss leaves the index
\* as it was; so no block index is returned by two probes of one call and no
\* pending entry is overwritten.
\* ------------------------------------------------------------------------
\* the entries of bucket bl with the strong hash of the window of h
EntriesFor(bl, h) ==
    {j \in 1..Len(bl) : bl[j].strongHash = StrongSum(GetWindowContent(h))}

C25_ProbeProtocol ==
    [][ProbeStep =>
          LET h   == weakHasher'
              key == Sum32(h)
              i   == LastProbe.index
          IN  /\ i # -1 =>
                    /\ key \in DOMAIN searchList
                    /\ EntriesFor(searchList[key], h) # {}
                    /\ LET bl == searchList[key]
                           e  == EntriesFor(bl, h)
                           j  == CHOOSE x \in e : \A y \in e : bl[x].blockIndex <= bl[y].blockIndex
                       IN  /\ bl[j].blockIndex = i
                           /\ DOMAIN searchList' = DOMAIN searchList
                           /\ searchList'[key] = SubSeq(bl, 1, j - 1) \o SubSeq(bl, j + 1, Len(bl))
                           /\ \A k \in DOMAIN searchList \ {key} : searchList'[k] = searchList[k]
                    /\ \A q \in 1..Len(probes) : probes[q].index # i
                    /\ i \notin DOMAIN tempDelta
              /\ i = -1 => searchList' = searchList]_vars

\* a hit in a bucket that holds two blocks of the same content: the second
\* one is still there
C25_Witness ==
    /\ pc = "delta"
    /\ Len(matches) = 1
    /\ LET key == signature[matches[1].index + 1].WeakHash
       IN  /\ Len(searchList[key]) = 1
           /\ searchList[key][1].strongHash = signature[matches[1].index + 1].StrongHash
           /\ searchList[key][1].blockIndex > matches[1].index

\* ------------------------------------------------------------------------
\* C26. Every read of the signature builder asks for blockSize bytes, however
\* many bytes the reads before it returned, and so does every read of the
\* delta builder in filling mode.
\* ------------------------------------------------------------------------
SignatureReadStep == pc = "signature" /\ Len(reads') = Len(reads) + 1

C26_ReadSizes ==
    [][/\ SignatureReadStep => LastRead.size = blockSize
       /\ (DeltaReadStep /\ ~rolling) => LastRead.size = blockSize]_vars

\* what does hold: the first read of the signature builder and the filling
\* reads of the delta builder ask for blockSize bytes, and a later read of the
\* signature builder asks for as many bytes as the read before it returned
ReadSizesAsCoded ==
    [][/\ SignatureReadStep =>
             LastRead.size = (IF reads = <<>> THEN blockSize ELSE reads[Len(reads)].n)
       /\ (DeltaReadStep /\ ~rolling) => LastRead.size = blockSize]_vars

\* ------------------------------------------------------------------------
\* C27. Roll(x) on a window of n bytes returns the oldest byte of the window,
\* the byte given to the hash n operations ago, keeps the window size and
\* makes x the newest byte; so the n rolls that follow WriteAll(p) return the
\* bytes of p in order.
\* ------------------------------------------------------------------------
\* a Roll that returned
RollStep == pc = "hash" /\ rolls' = rolls + 1

\* fed holds the last n bytes given to the hash, oldest first: after
\* WriteAll(p) and k < n rolls its first byte is p[k + 1]
C27_RollEvictsOldest ==
    [][RollStep =>
          /\ returned' = fed[1]
          /\ returned' = GetWindowContent(weakHasher)[1]
          /\ weakHasher'.n = weakHasher.n
          /\ Len(GetWindowContent(weakHasher')) = weakHasher.n
          /\ GetWindowContent(weakHasher') =
                Append(Tail(GetWindowContent(weakHasher)), fed'[Len(fed')])]_vars

\* the third Roll behind a WriteAll of three bytes has returned the third byte
\* written, 255, and the window holds the three bytes rolled in
C27_Witness ==
    /\ pc = "hash"
    /\ rolls = 3
    /\ returned = 255
    /\ fed = <<255, 0, 0>>
    /\ GetWindowContent(weakHasher) = <<255, 0, 0>>
    /\ weakHasher.n = 3

\* ------------------------------------------------------------------------
\* C28. WriteAll of no bytes changes nothing: a, b, n and the window are what
\* they were, so Sum32 and GetWindowContent return what they returned before
\* the call; on a hash that is fresh or reset, Sum32 stays 1 and the window
\* stays empty.
\* ------------------------------------------------------------------------
C28_WriteAllEmpty ==
    pc = "hash" =>
        LET h == WriteAll(weakHasher, <<>>)
        IN  /\ h.a = weakHasher.a /\ h.b = weakHasher.b /\ h.n = weakHasher.n
            /\ h.window = weakHasher.window
            /\ Sum32(h) = Sum32(weakHasher)
            /\ GetWindowContent(h) = GetWindowContent(weakHasher)
            /\ Uninitialized => Sum32(h) = <<0, 1>> /\ GetWindowContent(h) = <<>>

\* WriteAll of no bytes on a window of two bytes whose ring handle a Roll has
\* moved: the sum and the window are still those of <<255, 0>>
C28_Witness ==
    /\ pc = "hash"
    /\ rolls = 1
    /\ fed = <<255, 0>>
    /\ weakHasher.window.at = 2
    /\ Sum32(WriteAll(weakHasher, <<>>)) = Adler32(<<255, 0>>)
    /\ GetWindowContent(WriteAll(weakHasher, <<>>)) = <<255, 0>>

\* ------------------------------------------------------------------------
\* C29. For the window w[0..n-1] held by the rolling hash,
\* a = (1 + sum of w[i]) mod M, b = (sum of (n - i) * w[i]) mod M, and
\* Sum32 = (b << 16) | (a & 0xFFFF).
\* ------------------------------------------------------------------------
RECURSIVE SumOfBytes(_)
SumOfBytes(w) == IF w = <<>> THEN 0 ELSE Head(w) + SumOfBytes(Tail(w))

\* the sum of (n - i) * w[i] over the window, i counted from 0: the oldest
\* byte weighs n, the newest 1
RECURSIVE WeightedSum(_)
WeightedSum(w) == IF w = <<>> THEN 0 ELSE Len(w) * Head(w) + WeightedSum(Tail(w))

Window == GetWindowContent(weakHasher)

WideRollStep == pc = "wide" /\ rolls' = rolls + 1

C30_RollNeverWraps ==
    [][WideRollStep =>
          ~RollWraps(weakHasher, fed'[Len(fed')][1], Head(weakHasher.window)[1])]_vars

\* what does hold: no Roll on a window of at most MaxBlockSize bytes wraps
RollNeverWrapsUpToMaxBlockSize ==
    [][(WideRollStep /\ weakHasher.n <= MaxBlockSize) =>
          ~RollWraps(weakHasher, fed'[Len(fed')][1], Head(weakHasher.window)[1])]_vars

\* ------------------------------------------------------------------------
\* C31. Byte conservation: in every delta returned, the matches taken in the
\* order they occurred while the source was streamed, each as the literal
\* recorded for it followed by the bytes of its window, and then the data of
\* New if there is one, add up to the source: no byte is dropped and none is
\* counted twice.
\* ------------------------------------------------------------------------
\* the Data recorded in the delta for match j: the delta lists the operation
\* of target block i at place i + 1
RecordedLiteral(j) == delta[matches[j].index + 1].Data

\* the bytes the first j matches account for
RECURSIVE Streamed(_)
Streamed(j) ==
    IF j = 0 THEN <<>>
    ELSE Streamed(j - 1) \o RecordedLiteral(j) \o WindowBytes(matches[j])

\* the data of New, nothing when the delta has no New
NewData ==
    IF delta # <<>> /\ delta[Len(delta)].Type = OpBlockNew
    THEN delta[Len(delta)].Data ELSE <<>>

C31_ByteConservation ==
    Returned => Streamed(Len(matches)) \o NewData = source

\* ------------------------------------------------------------------------
\* C32. Loop invariant of the delta builder: after every step, in sliding
\* mode the bytes read from the source since the end of the last matched
\* window (since the start when there is none) are the literal followed by
\* the window content, and in filling mode the literal is empty.
\* ------------------------------------------------------------------------
\* the offset where the last matched window ended
LastMatchEnd == PrevEnd(Len(matches) + 1)

C32_LoopInvariant ==
    pc = "delta" =>
        /\ rolling =>
              SourceBytes(LastMatchEnd, spos) = literal \o GetWindowContent(weakHasher)
        /\ ~rolling => literal = <<>>

\* ------------------------------------------------------------------------
\* C33. Inside ComputeDelta with a block size of at least 1, Roll is called
\* on an initialized window only: whenever the builder is in sliding mode, a
\* filling read of this call has loaded at least one byte through WriteAll
\* since the Reset at the top, so the window is not nil and Roll cannot panic.
\* ------------------------------------------------------------------------
C33_RollOnInitializedWindow ==
    (pc = "delta" /\ blockSize >= 1 /\ rolling) =>
        /\ weakHasher.window # NilRing
        /\ weakHasher.n >= 1
        /\ Len(GetWindowContent(weakHasher)) = weakHasher.n
        /\ reads # <<>>
        /\ reads[1].size = blockSize
        /\ reads[1].n >= 1
        /\ weakHasher.n <= reads[1].size

\* sliding mode behind two rolls on a window of two bytes, the builder about
\* to roll again
C33_Witness ==
    /\ pc = "delta"
    /\ rolling
    /\ blockSize = 2
    /\ Len(reads) = 3
    /\ reads[2].size = 1 /\ reads[2].n = 1
    /\ reads[3].size = 1 /\ reads[3].n = 1
    /\ weakHasher.window # NilRing
    /\ spos < Len(source)

\* ------------------------------------------------------------------------
\* C34. Termination: for every block size the block-size policy returns for
\* a target that is not empty, given to New or computed, the loop of
\* ComputeSignature and the loop of ComputeDelta end: every iteration takes
\* at least one byte from the stream, and the loop is left at the first read
\* that returns no byte and io.EOF.  The positions in the two streams never
\* go back and are bounded by the streams' lengths, so the loops end if and
\* only if every iteration that stays in its loop moves its position.
\* ------------------------------------------------------------------------
\* a read that returned no byte and io.EOF
LastReadIsEOF == LastRead.n = 0 /\ LastRead.err = EOF

C34_Termination ==
    [][/\ SignatureReadStep =>
             IF LastReadIsEOF THEN pc' = "signed"
             ELSE pc' # "signature" \/ tpos' >= tpos + 1
       /\ DeltaReadStep =>
             IF LastReadIsEOF THEN pc' = "done"
             ELSE pc' # "delta" \/ spos' >= spos + 1]_vars

\* what does hold: the loops end for every block size of at least one byte
TerminationFromOneByte ==
    [][blockSize >= 1 =>
          /\ SignatureReadStep =>
                IF LastReadIsEOF THEN pc' = "signed"
                ELSE pc' # "signature" \/ tpos' >= tpos + 1
          /\ DeltaReadStep =>
                IF LastReadIsEOF THEN pc' = "done"
                ELSE pc' # "delta" \/ spos' >= spos + 1]_vars

\* ------------------------------------------------------------------------
\* C35. ComputeDelta leaves the caller's block list as it is and keeps no
\* index between calls: the search list is built from the block list at every
\* call, the removal of entries touches that search list only, and a second
\* call with the same source bytes and the same block list returns an
\* operation list equal to the first.
\* ------------------------------------------------------------------------
\* a call of ComputeDelta made while the caller holds the operations an
\* earlier call returned
RepeatCall == pc = "delta" /\ delta # <<>>

C35_NoIndexStateKept ==
    [][/\ (BeginsDelta \/ pc = "delta") => signature' = signature
       /\ BeginsDelta =>
             \A i \in 1..Len(signature) :
                \E k \in DOMAIN searchList'[signature[i].WeakHash] :
                   /\ searchList'[signature[i].WeakHash][k].blockIndex = i - 1
                   /\ searchList'[signature[i].WeakHash][k].strongHash =
                         signature[i].StrongHash
       /\ (RepeatCall /\ EndsDelta) => delta' = delta]_vars

\* a repeated call about to return: the caller holds a delta of two
\* operations or more, and this call has matched a block and taken its entry
\* out of the search list
C35_Witness ==
    /\ RepeatCall
    /\ spos = Len(source)
    /\ Len(delta) >= 2
    /\ matches # <<>>
    /\ \E h \in DOMAIN searchList : searchList[h] = <<>>
    /\ \E k \in 1..Len(delta) : delta[k].Type = OpBlockRemove

\* ------------------------------------------------------------------------
\* C36. A Signature call that fails the validation of the block size (the
\* block size does not split the target in two chunks) leaves the block size
\* of the App as it was, so a later Signature call on the same App, for a
\* larger target, is validated against the block size given to New and uses
\* it.
\* ------------------------------------------------------------------------
C36_FailedCallKeepsBlockSize ==
    [][/\ (Decides /\ pc' = "appFailed") => blockSize' = blockSize
       /\ (Decides /\ Lt64(I64(0), newBlockSize)) =>
             /\ pc' = "appFailed" <=> FewerThanTwoChunks(fileSize, newBlockSize)
             /\ pc' = "sized" => blockSize' = newBlockSize]_vars

\* what does hold: a call that fails the validation leaves the App with a
\* block size of 0, and the call after it computes the block size dynamically
FailedCallClearsBlockSize ==
    [][/\ (Decides /\ pc' = "appFailed") => blockSize' = I64(0)
       /\ (Decides /\ blockSize = I64(0)) =>
             /\ pc' = "sized"
             /\ blockSize' = decideBlockSize(I64(0), fileSize).blockSize]_vars

====
